---------------------------- MODULE Spec2Model ----------------------------
(***************************************************************************)
(* Server-side world simulation of Pirate's Conquest: GameServer (session  *)
(* coordinator), World (entity collections, tick, deltas) and the entity   *)
(* classes Player, Resource, Rock, Projectile.                             *)
(*                                                                         *)
(* Discretisation used throughout:                                         *)
(*  - coordinates and sizes are integers (world units); fractional        *)
(*    products of the source (0.6 * size, speed * deltaSeconds) are        *)
(*    truncated to integers;                                               *)
(*  - angles are counted in quarter turns (1 unit = PI/2), so cos and sin  *)
(*    are exact; one tick of held rotation turns a ship by one unit;       *)
(*  - Math.random() and uuidv4() are inputs: positions, sizes and angles   *)
(*    are drawn from small sets, ids from a counter;                       *)
(*  - a JavaScript Map is a sequence in insertion order (the order the     *)
(*    source's for..of loops visit it).                                    *)
(***************************************************************************)
EXTENDS Integers, Sequences, FiniteSets, TLC

VARIABLES
    players,        \* World.players: Seq of Player records, insertion order
    gsPlayers,      \* GameServer.players: Seq of player ids, insertion order
    sockets,        \* io.sockets.sockets: ids of the open connections
    usedSockets,    \* connection ids handed out so far (ids are never reused)
    resources,      \* World.resources
    rocks,          \* World.rocks
    projectiles,    \* World.projectiles
    nextId,         \* source of fresh entity ids (uuidv4)
    ticks,          \* number of GameServer.update calls so far
    msgs,           \* number of client messages handled so far
    outbox,         \* messages emitted by the last handler, in order
    obs,            \* observations of the last handler (history variable)
    sentRocks,      \* per player, the rock snapshots as of its last delta
                    \* (history variable)
    sinceFire,      \* per connection: the dt of the ticks since its ship's last
                    \* accepted fire (capped at the cooldown time), -1 when
                    \* the ship has not fired
    departed,       \* ids of the players that disconnected since the last
                    \* tick (history variable)
    config,         \* World's spawn configuration: woodSpawnQuantity,
                    \* rockSpawnQuantity, maxRockCount, maxWoodCount
    firings,        \* number of spawn timer firings so far
    timers,         \* the interval timers: the live ones (setInterval, not
                    \* yet cleared), the handles GameServer.tickInterval,
                    \* World.woodSpawnInterval and World.rockSpawnInterval
                    \* (0 for null) and World's spawn periods
    listening       \* whether the http server has not been closed

vars == <<players, gsPlayers, sockets, usedSockets, resources, rocks,
          projectiles, nextId, ticks, msgs, outbox, obs, sentRocks,
          sinceFire, departed, config, firings, timers, listening>>

---------------------------------------------------------------------------
(* Program constants *)

width == 11000
height == 11000
BASE_SIZE == 20
speed == 300
cannonCooldownTime == 2000
maxLifetime == 3000
projectileSpeed == 300
projectileSize == 5
woodSpawnIntervalMs == 5000
rockSpawnIntervalMs == 30000
chestSpawnIntervalMs == 20000

(* Bounds of the model *)

\* GameServer.tickRate, scaled down so that a cooldown or a projectile
\* lifetime spans a few ticks.
tickRate == 2
\* World.initialRockCount, scaled down.
initialRockCount == 2
\* Number of wood resources World's constructor tries to place, scaled down.
initialWoodCount == 5
\* GameServer.update calls explored.
MaxTicks == 2
\* Client messages (join, controls, fire, disconnect) explored.
MaxMessages == 3
\* Ticks and client messages of a run in which one ship sinks another.
DuelTicks == 2
DuelMessages == 4
\* Ticks and client messages of a run of one connection that steers.
HelmTicks == 2
HelmMessages == 3
\* Ticks and client messages of a run with a single connection.
SoloTicks == 7
SoloMessages == 4
\* World.maxRockCount, World.maxWoodCount, World.woodSpawnQuantity and
\* World.rockSpawnQuantity, scaled down with the initial counts.
maxRockCount == 3
maxWoodCount == 6
woodSpawnQuantity == 2
rockSpawnQuantity == 1
\* Ticks and client messages of a run in which the timers are started,
\* stopped and restarted, and the number of timers created in it.
TimerTicks == 1
TimerMessages == 2
MaxTimers == 7
\* Spawn timer firings, ticks and client messages of a run in which the
\* spawn timers fire.
SpawnFirings == 3
SpawnTicks == 1
SpawnMessages == 3
\* Ticks and client messages of a run with rock respawns.
RespawnTicks == 2
RespawnMessages == 3

deltaTime == 1000 \div tickRate

Pos(x, y) == [x |-> x, y |-> y]

\* Connection ids (socket.id); entity ids (uuidv4) are the integers above them.
Sockets == {1, 2}

---------------------------------------------------------------------------
(* Arithmetic helpers *)

Min(a, b) == IF a < b THEN a ELSE b
Max(a, b) == IF a > b THEN a ELSE b

\* JavaScript's % on numbers: the result takes the sign of the dividend.
JsRem(a, n) == IF a >= 0 THEN a % n ELSE -((-a) % n)

\* Math.cos / Math.sin of an angle given in quarter turns.
Cos(a) == CASE a % 4 = 0 -> 1 [] a % 4 = 1 -> 0 [] a % 4 = 2 -> -1 [] OTHER -> 0
Sin(a) == CASE a % 4 = 0 -> 0 [] a % 4 = 1 -> 1 [] a % 4 = 2 -> 0 [] OTHER -> -1

\* Truncation toward zero of num / den (den > 0).
Trunc(num, den) == IF num >= 0 THEN num \div den ELSE -((-num) \div den)

\* The elements of a sequence, as a set.
Range(s) == {s[i] : i \in 1..Len(s)}

\* Indices of the elements of a sequence that satisfy Test.
SelectIdx(s, Test(_)) == {i \in 1..Len(s) : Test(s[i])}

\* Index of the first element with the given id, 0 when there is none
\* (Array.prototype.find / Map.get by key).
IndexOfId(s, id) ==
    IF \E i \in 1..Len(s) : s[i].id = id
    THEN CHOOSE i \in 1..Len(s) : s[i].id = id /\ \A j \in 1..(i-1) : s[j].id # id
    ELSE 0

HasId(s, id) == \E i \in 1..Len(s) : s[i].id = id

\* Map.delete(id) on a sequence of records.
DeleteId(s, id) == SelectSeq(s, LAMBDA e : e.id # id)

\* Map.set(id, e): replaces in place when the key exists, appends otherwise.
SetId(s, e) ==
    IF HasId(s, e.id) THEN [i \in 1..Len(s) |-> IF s[i].id = e.id THEN e ELSE s[i]]
    ELSE Append(s, e)

---------------------------------------------------------------------------
(* Entity: distance and collision *)

\* Square of Entity.distanceTo.
distanceSq(p, q) == (p.x - q.x) * (p.x - q.x) + (p.y - q.y) * (p.y - q.y)

\* sqrt(d2) < r for integers d2 >= 0 and r.
DistLess(d2, r) == r > 0 /\ d2 < r * r

\* Entity.collidesWith: circular test, distance < this.size + other.size.
collidesWith(e, other) == DistLess(distanceSq(e.position, other.position), e.size + other.size)

---------------------------------------------------------------------------
(* Player *)

NoControls == [moveForward |-> FALSE, rotateLeft |-> FALSE, rotateRight |-> FALSE]
NoEntities == [ships |-> <<>>, resources |-> <<>>, rocks |-> <<>>, projectiles |-> <<>>]

\* new Player(id, name, position, shipType, hp, cannons); the starting angle
\* is Math.random() * 2 PI, here the input angle.
Player(id, name, position, shipType, hp, cannons, angle) ==
    [id |-> id, position |-> position, size |-> BASE_SIZE,
     name |-> name, shipType |-> shipType, hp |-> hp, maxHp |-> hp,
     cannons |-> cannons, angle |-> angle, cannonCooldown |-> 0,
     controls |-> NoControls, lastKnownEntities |-> NoEntities]

\* Player.updateSize
updateSize(p) == [p EXCEPT !.size = Min(BASE_SIZE + (p.hp * 2), 500)]

\* Mutant of updateCannons: the count follows hp down as well as up.
updateCannons_NoMax(p) ==
    LET newCannons == 2 + ((p.hp \div 5) * 2)
    IN  [p EXCEPT !.cannons = newCannons]

\* Mutant of updateCannons: one cannon, not one on each side, for every 5 hp.
updateCannons_OnePerStep(p) ==
    LET newCannons == 2 + (p.hp \div 5)
    IN  [p EXCEPT !.cannons = Max(p.cannons, newCannons)]

\* Player.updateCannons
updateCannons(p) ==
    LET newCannons == 2 + ((p.hp \div 5) * 2)
    IN  [p EXCEPT !.cannons = Max(p.cannons, newCannons)]

\* Mutant of addHp: the size is not recomputed.
addHp_NoResize(p, amount) ==
    LET p1 == [p EXCEPT !.hp = p.hp + amount, !.maxHp = p.hp + amount]
    IN  updateCannons(p1)

\* Mutant of addHp: maxHp is left as it was.
addHp_KeepMax(p, amount) ==
    LET p1 == [p EXCEPT !.hp = p.hp + amount]
    IN  updateCannons(updateSize(p1))

\* Player.addHp
addHp(p, amount) ==
    LET p1 == [p EXCEPT !.hp = p.hp + amount, !.maxHp = p.hp + amount]
    IN  updateCannons(updateSize(p1))

\* Player.takeDamage: the damaged player and whether it died.
takeDamage(p, amount) ==
    LET p1 == [p EXCEPT !.hp = p.hp - amount]
    IN  IF p1.hp <= 0
        THEN [player |-> [p1 EXCEPT !.hp = 0], isDead |-> TRUE]
        ELSE [player |-> updateCannons(updateSize(p1)), isDead |-> FALSE]

\* Mutant of canFire: the cooldown is not looked at.
canFire_Always(p) == TRUE

\* Player.canFire
canFire(p) == p.cannonCooldown <= 0

\* Player.startCooldown
startCooldown(p) == [p EXCEPT !.cannonCooldown = cannonCooldownTime]

\* Player.update(deltaTime)
PlayerUpdate(p, dt) ==
    LET a1 == IF p.controls.rotateLeft THEN p.angle - 1 ELSE p.angle
        a2 == IF p.controls.rotateRight THEN a1 + 1 ELSE a1
        a3 == JsRem(a2, 4)
        a4 == IF a3 < 0 THEN a3 + 4 ELSE a3
        step == Trunc(speed * dt, 1000)
        x1 == IF p.controls.moveForward THEN p.position.x + Cos(a4) * step ELSE p.position.x
        y1 == IF p.controls.moveForward THEN p.position.y + Sin(a4) * step ELSE p.position.y
        c1 == IF p.cannonCooldown > 0 THEN Max(p.cannonCooldown - dt, 0) ELSE p.cannonCooldown
        x2 == Max(p.size, Min(x1, 11000 - p.size))
        y2 == Max(p.size, Min(y1, 11000 - p.size))
    IN  [p EXCEPT !.angle = a4, !.cannonCooldown = c1, !.position = Pos(x2, y2)]

\* Player.serialize
PlayerSerialize(p) ==
    [id |-> p.id, x |-> p.position.x, y |-> p.position.y, type |-> "ship",
     angle |-> p.angle, hp |-> p.hp, size |-> p.size, shipType |-> p.shipType,
     cannons |-> p.cannons, name |-> p.name]

---------------------------------------------------------------------------
(* Resource, Rock, Projectile *)

\* new Resource(id, position, resourceType, value)
Resource(id, position, resourceType, value) ==
    [id |-> id, position |-> position,
     size |-> IF resourceType = "wood" THEN 15 ELSE 10,
     resourceType |-> resourceType, value |-> value]

\* Resource.serialize
ResourceSerialize(r) ==
    [id |-> r.id, x |-> r.position.x, y |-> r.position.y, type |-> "resource",
     resourceType |-> r.resourceType, value |-> r.value]

\* new Rock(id, position, size, hp)
Rock(id, position, size, hp) ==
    [id |-> id, position |-> position, size |-> size, hp |-> hp, maxHp |-> hp]

\* Mutant of rockTakeDamage: a rock is destroyed one hit early.
rockTakeDamage_Early(r, amount) ==
    [rock |-> [r EXCEPT !.hp = r.hp - amount], destroyed |-> r.hp - amount <= 1]

\* Rock.takeDamage: the damaged rock and whether it is destroyed.
rockTakeDamage(r, amount) ==
    [rock |-> [r EXCEPT !.hp = r.hp - amount], destroyed |-> r.hp - amount <= 0]

\* Rock.serialize
RockSerialize(r) ==
    [id |-> r.id, x |-> r.position.x, y |-> r.position.y, type |-> "rock",
     size |-> r.size, hp |-> r.hp, maxHp |-> r.maxHp]

\* new Projectile(id, position, angle, speed, damage, ownerId)
Projectile(id, position, angle, spd, damage, ownerId) ==
    [id |-> id, position |-> position, size |-> projectileSize, angle |-> angle,
     speed |-> spd, damage |-> damage, ownerId |-> ownerId, lifetime |-> 0]

\* Projectile.update(deltaTime)
ProjectileUpdate(q, dt) ==
    LET step == Trunc(q.speed * dt, 1000)
    IN  [q EXCEPT !.position = Pos(q.position.x + Cos(q.angle) * step,
                                   q.position.y + Sin(q.angle) * step),
                  !.lifetime = q.lifetime + dt]

\* Mutant of isExpired: a projectile lives one tick longer.
isExpired_Late(q) == q.lifetime > maxLifetime

\* Projectile.isExpired
isExpired(q) == q.lifetime >= maxLifetime

\* Projectile.serialize
ProjectileSerialize(q) ==
    [id |-> q.id, x |-> q.position.x, y |-> q.position.y, type |-> "projectile",
     angle |-> q.angle, ownerId |-> q.ownerId]

---------------------------------------------------------------------------
(* World: the state handed from step to step inside one handler.           *)
(* w.out collects the messages emitted, w.rand counts the random spawn     *)
(* draws consumed; w.moves, w.hits, w.deaths, w.pickups, w.deltas, w.spawns *)
(* w.placements and w.retired record                                       *)
(* what the handler did, and w.sent holds, per player, the values of the   *)
(* rocks listed in its lastKnownEntities at the time they were stored.     *)

World(ps, rs, ks, qs, nid, sent) ==
    [players |-> ps, resources |-> rs, rocks |-> ks, projectiles |-> qs,
     nextId |-> nid, sent |-> sent, out |-> <<>>, rand |-> 0,
     moves |-> <<>>, hits |-> <<>>, deaths |-> <<>>, pickups |-> <<>>,
     deltas |-> <<>>, spawns |-> <<>>, placements |-> <<>>, retired |-> <<>>]

\* socket.emit / io.emit: `to` is the set of connections that receive it.
Emit(w, to, event, data) ==
    [w EXCEPT !.out = Append(@, [to |-> to, event |-> event, data |-> data])]

\* Mutant of isPositionSafe: a position at exactly the clearance distance
\* is rejected.
isPositionSafe_Strict(w, position, safeRadius) ==
    /\ \A i \in 1..Len(w.rocks) :
          ~DistLess(distanceSq(position, w.rocks[i].position) - 1, safeRadius + w.rocks[i].size)
    /\ \A i \in 1..Len(w.players) :
          ~DistLess(distanceSq(position, w.players[i].position) - 1, safeRadius + w.players[i].size)

\* World.isPositionSafe
isPositionSafe(w, position, safeRadius) ==
    /\ \A i \in 1..Len(w.rocks) :
          ~DistLess(distanceSq(position, w.rocks[i].position), safeRadius + w.rocks[i].size)
    /\ \A i \in 1..Len(w.players) :
          ~DistLess(distanceSq(position, w.players[i].position), safeRadius + w.players[i].size)

\* The loop of World.getRandomSpawnPosition (attempts < limit) over the
\* candidates drawn for its attempts: the first safe one, or the fallback
\* near the centre. The result holds the position, whether it is the
\* fallback, and the candidates tried with what isPositionSafe said of each.
RECURSIVE SpawnAttempt(_, _, _, _)
SpawnAttempt(w, draw, attempts, limit) ==
    IF attempts >= limit \/ attempts >= Len(draw.attempts)
    THEN [position |-> draw.fallback, fallback |-> TRUE, tried |-> <<>>]
    ELSE LET position == draw.attempts[attempts + 1]
         IN  IF isPositionSafe(w, position, 100)
             THEN [position |-> position, fallback |-> FALSE,
                   tried |-> <<[position |-> position, safe |-> TRUE]>>]
             ELSE LET rest == SpawnAttempt(w, draw, attempts + 1, limit)
                  IN  [rest EXCEPT !.tried = <<[position |-> position, safe |-> FALSE]>> \o @]

\* Mutant of getRandomSpawnPosition: an eleventh attempt is made.
getRandomSpawnPosition_Eleven(w, draw) == SpawnAttempt(w, draw, 0, 11)

\* World.getRandomSpawnPosition; draw holds the values Math.random yields:
\* the candidate of each attempt and the fallback position.
getRandomSpawnPosition(w, draw) == SpawnAttempt(w, draw, 0, 10)

\* The record of one getRandomSpawnPosition call: its result and the rocks
\* and players of the world it was called in.
Placement(w, placed) ==
    [position |-> placed.position, fallback |-> placed.fallback, tried |-> placed.tried,
     obstacles |-> {[position |-> w.rocks[i].position, size |-> w.rocks[i].size] :
                        i \in 1..Len(w.rocks)}
                   \cup {[position |-> w.players[i].position, size |-> w.players[i].size] :
                        i \in 1..Len(w.players)}]

\* World.addPlayer
\* Mutant of addPlayer: the player is added beside the one its id has.
addPlayer_Append(w, player) ==
    [w EXCEPT !.players = Append(@, [player EXCEPT !.lastKnownEntities = NoEntities])]

addPlayer(w, player) ==
    [w EXCEPT !.players = SetId(@, [player EXCEPT !.lastKnownEntities = NoEntities])]

\* Mutant of removePlayer: the player stays in the players collection.
removePlayer_KeepsPlayer(w, playerId) ==
    IF HasId(w.players, playerId)
    THEN [w EXCEPT !.players =
            [i \in 1..Len(w.players) |->
                [w.players[i] EXCEPT !.lastKnownEntities.ships =
                    SelectSeq(@, LAMBDA ship : ship # playerId)]]]
    ELSE w

\* Mutant of removePlayer: the last snapshots of the others are not scrubbed.
removePlayer_NoScrub(w, playerId) ==
    IF HasId(w.players, playerId)
    THEN [w EXCEPT !.players = DeleteId(w.players, playerId)]
    ELSE w

\* Mutant of removePlayer: the projectiles of the player go with it.
removePlayer_WithShots(w, playerId) ==
    IF HasId(w.players, playerId)
    THEN LET rest == DeleteId(w.players, playerId)
         IN  [w EXCEPT !.players =
                [i \in 1..Len(rest) |->
                    [rest[i] EXCEPT !.lastKnownEntities.ships =
                        SelectSeq(@, LAMBDA ship : ship # playerId)]],
                       !.projectiles = SelectSeq(@, LAMBDA q : q.ownerId # playerId)]
    ELSE w

\* World.removePlayer
removePlayer(w, playerId) ==
    IF HasId(w.players, playerId)
    THEN LET rest == DeleteId(w.players, playerId)
         IN  [w EXCEPT !.players =
                [i \in 1..Len(rest) |->
                    [rest[i] EXCEPT !.lastKnownEntities.ships =
                        SelectSeq(@, LAMBDA ship : ship # playerId)]]]
    ELSE w

\* The projectile of cannon i (0-based) on one side, World.createProjectiles
\* lines 236-263.
CannonProjectile(player, side, i, id) ==
    LET cannonCount == player.cannons \div 2
        shipWidth == player.size
        shipHeight == player.size * 2
        spawnOffset == Trunc(shipWidth * 6, 10)
        sideAngle == IF side = 0 THEN 1 ELSE -1
        \* ((i + 1) / (cannonCount + 1) - 0.5) * (shipHeight * 0.8)
        spacing == Trunc((2 * (i + 1) - (cannonCount + 1)) * shipHeight * 8,
                         2 * (cannonCount + 1) * 10)
        sideX == Cos(player.angle + sideAngle) * spawnOffset
        sideY == Sin(player.angle + sideAngle) * spawnOffset
        offsetX == Cos(player.angle) * spacing
        offsetY == Sin(player.angle) * spacing
        spawnX == player.position.x + sideX + offsetX
        spawnY == player.position.y + sideY + offsetY
        projectileAngle == player.angle + sideAngle
    IN  Projectile(id, Pos(spawnX, spawnY), projectileAngle, projectileSpeed, 1, player.id)

\* Mutant of NewProjectiles: only the first side fires.
NewProjectiles_OneSide(player, firstId) ==
    LET cannonCount == player.cannons \div 2
    IN  [k \in 1..cannonCount |-> CannonProjectile(player, 0, k - 1, firstId + k - 1)]

\* The two nested loops of World.createProjectiles: side 0 then side 1,
\* cannon 0 .. cannonCount - 1 on each; ids are taken in that order.
NewProjectiles(player, firstId) ==
    LET cannonCount == player.cannons \div 2
    IN  [k \in 1..(2 * cannonCount) |->
            CannonProjectile(player, (k - 1) \div cannonCount, (k - 1) % cannonCount,
                             firstId + k - 1)]

\* World.createProjectiles(player), player given by id.
createProjectiles(w, playerId) ==
    LET i == IndexOfId(w.players, playerId)
        player == w.players[i]
        made == NewProjectiles(player, w.nextId)
    IN  IF ~canFire(player) THEN w
        ELSE [w EXCEPT !.projectiles = @ \o made,
                       !.nextId = @ + Len(made),
                       !.players[i] = startCooldown(player)]

---------------------------------------------------------------------------
(* World.update: ship movement and collision revert (lines 499-523) *)

\* Mutant of MovePlayer: a collision with another ship does not revert.
MovePlayer_NoShipRevert(w, i, dt) ==
    LET player == w.players[i]
        prevPos == player.position
        moved == PlayerUpdate(player, dt)
        hitRock == \E k \in 1..Len(w.rocks) : collidesWith(moved, w.rocks[k])
        final == IF hitRock THEN [moved EXCEPT !.position = prevPos] ELSE moved
        entry == [id |-> player.id, prevPos |-> prevPos, moved |-> moved.position,
                  overlapsRock |-> \E k \in 1..Len(w.rocks) : collidesWith(moved, w.rocks[k]),
                  overlapsShip |-> \E k \in 1..Len(w.players) :
                                      /\ w.players[k].id # player.id
                                      /\ collidesWith(moved, w.players[k]),
                  endPos |-> final.position]
    IN  [w EXCEPT !.players[i] = final, !.moves = Append(@, entry)]

\* One iteration of the player loop of World.update, for the player at
\* index i. The entry appended to w.moves records what the iteration saw.
MovePlayer(w, i, dt) ==
    LET player == w.players[i]
        prevPos == player.position
        moved == PlayerUpdate(player, dt)
        hitRock == \E k \in 1..Len(w.rocks) : collidesWith(moved, w.rocks[k])
        afterRocks == IF hitRock THEN [moved EXCEPT !.position = prevPos] ELSE moved
        hitShip == \E k \in 1..Len(w.players) :
                      /\ player.id # w.players[k].id
                      /\ collidesWith(afterRocks, w.players[k])
        final == IF hitShip THEN [afterRocks EXCEPT !.position = prevPos] ELSE afterRocks
        entry == [id |-> player.id, prevPos |-> prevPos, moved |-> moved.position,
                  overlapsRock |-> \E k \in 1..Len(w.rocks) : collidesWith(moved, w.rocks[k]),
                  overlapsShip |-> \E k \in 1..Len(w.players) :
                                      /\ w.players[k].id # player.id
                                      /\ collidesWith(moved, w.players[k]),
                  endPos |-> final.position]
    IN  [w EXCEPT !.players[i] = final, !.moves = Append(@, entry)]

RECURSIVE MovePlayers(_, _, _)
MovePlayers(w, i, dt) ==
    IF i > Len(w.players) THEN w ELSE MovePlayers(MovePlayer(w, i, dt), i + 1, dt)

---------------------------------------------------------------------------
(* World.handlePlayerDeath and World.dropPlayerLoot *)

\* Mutant of dropPlayerLoot: a death always drops at least one wood.
dropPlayerLoot_AtLeastOne(w, player, offset) ==
    LET position == player.position
        woodCount == Max(1, player.hp \div 2)
        drop == [k \in 1..woodCount |->
                    Resource(w.nextId + k - 1,
                             Pos(position.x + offset.x, position.y + offset.y), "wood", 1)]
    IN  [w EXCEPT !.resources = @ \o drop, !.nextId = @ + woodCount]

\* World.dropPlayerLoot; offset is the random offset added to the position
\* of the wood dropped.
dropPlayerLoot(w, player, offset) ==
    LET position == player.position
        woodCount == player.hp \div 2
        drop == [k \in 1..woodCount |->
                    Resource(w.nextId + k - 1,
                             Pos(position.x + offset.x, position.y + offset.y), "wood", 1)]
    IN  [w EXCEPT !.resources = @ \o drop, !.nextId = @ + woodCount]

\* The draw used by the n-th random spawn of a handler.
DrawAt(draws, n) == draws[(n % Len(draws)) + 1]

\* Mutant of handlePlayerDeath: the hp is left at 0.
handlePlayerDeath_NoHp(w, i, killerID, hpBefore, draws, conns) ==
    LET player == w.players[i]
        k == IndexOfId(w.players, killerID)
        killMessage == IF k # 0 THEN <<w.players[k].name, "sank", player.name>>
                       ELSE <<player.name, "destroyed">>
        feedTo == {w.players[j].id : j \in 1..Len(w.players)} \cap conns
        w1 == IF feedTo # {} THEN Emit(w, feedTo, "game:killfeed", killMessage) ELSE w
        w2 == IF player.id \in conns THEN Emit(w1, {player.id}, "player:died", <<>>) ELSE w1
        draw == DrawAt(draws, w.rand)
        w3 == dropPlayerLoot(w2, player, draw.offset)
        reset == updateSize([player EXCEPT !.cannons = 2])
        w4 == [w3 EXCEPT !.players[i] = reset]
        placed == getRandomSpawnPosition(w4, draw)
        spawn == placed.position
        added == SubSeq(w3.resources, Len(w.resources) + 1, Len(w3.resources))
        entry == [id |-> player.id, killer |-> killerID, hpBefore |-> hpBefore,
                  controls |-> player.controls,
                  reset |-> [hp |-> reset.hp, size |-> reset.size, cannons |-> reset.cannons],
                  wood |-> Cardinality({j \in 1..Len(added) : added[j].resourceType = "wood"}),
                  chests |-> Cardinality({j \in 1..Len(added) : added[j].resourceType = "chest"}),
                  position |-> spawn]
    IN  [w4 EXCEPT !.players[i].position = spawn, !.rand = @ + 1,
                   !.deaths = Append(@, entry),
                   !.placements = Append(@, Placement(w4, placed))]

\* World.handlePlayerDeath(player, killerID); the player is given by index,
\* hpBefore is its hp before the lethal hit (recorded only).
handlePlayerDeath(w, i, killerID, hpBefore, draws, conns) ==
    LET player == w.players[i]
        k == IndexOfId(w.players, killerID)
        killMessage == IF k # 0 THEN <<w.players[k].name, "sank", player.name>>
                       ELSE <<player.name, "destroyed">>
        feedTo == {w.players[j].id : j \in 1..Len(w.players)} \cap conns
        w1 == IF feedTo # {} THEN Emit(w, feedTo, "game:killfeed", killMessage) ELSE w
        w2 == IF player.id \in conns THEN Emit(w1, {player.id}, "player:died", <<>>) ELSE w1
        draw == DrawAt(draws, w.rand)
        w3 == dropPlayerLoot(w2, player, draw.offset)
        reset == updateSize([player EXCEPT !.hp = 1, !.cannons = 2])
        w4 == [w3 EXCEPT !.players[i] = reset]
        placed == getRandomSpawnPosition(w4, draw)
        spawn == placed.position
        added == SubSeq(w3.resources, Len(w.resources) + 1, Len(w3.resources))
        entry == [id |-> player.id, killer |-> killerID, hpBefore |-> hpBefore,
                  controls |-> player.controls,
                  reset |-> [hp |-> reset.hp, size |-> reset.size, cannons |-> reset.cannons],
                  wood |-> Cardinality({j \in 1..Len(added) : added[j].resourceType = "wood"}),
                  chests |-> Cardinality({j \in 1..Len(added) : added[j].resourceType = "chest"}),
                  position |-> spawn]
    IN  [w4 EXCEPT !.players[i].position = spawn, !.rand = @ + 1,
                   !.deaths = Append(@, entry),
                   !.placements = Append(@, Placement(w4, placed))]

---------------------------------------------------------------------------
(* World.updateProjectiles (lines 533-597) *)

\* The least element of a non-empty set of indices: the element a for..of
\* loop with break reaches first.
FirstIdx(S) == CHOOSE i \in S : \A j \in S : i <= j

\* Mutant of HitCandidates: the owner is not excluded.
HitCandidates_OwnerToo(w, q) ==
    {k \in 1..Len(w.players) : collidesWith(q, w.players[k])}

\* The players a projectile may damage (line 577): not its owner, and colliding.
HitCandidates(w, q) ==
    {k \in 1..Len(w.players) :
        w.players[k].id # q.ownerId /\ collidesWith(q, w.players[k])}

\* What a projectile overlaps when it hits: the rocks it collides with and
\* the ships, other than its owner's, it collides with.
Overlaps(w, q) ==
    [rocks |-> {w.rocks[k].id : k \in {n \in 1..Len(w.rocks) : collidesWith(q, w.rocks[n])}},
     ships |-> {w.players[k].id : k \in HitCandidates(w, q)}]

\* The record of a projectile removed for its age or its position (lines
\* 541-556): its age, its position and what it overlapped.
Retired(w, q) ==
    [projectile |-> q.id, age |-> q.lifetime, at |-> q.position, overlaps |-> Overlaps(w, q)]

\* A projectile hits the first rock it collides with (lines 558-570).
HitRock(w, q, k) ==
    LET rock == w.rocks[k]
        res == rockTakeDamage(rock, q.damage)
        entry == [projectile |-> q.id, ownerId |-> q.ownerId, kind |-> "rock",
                  target |-> rock.id, hpBefore |-> rock.hp, hpAfter |-> res.rock.hp,
                  maxHp |-> rock.maxHp,
                  cannonsBefore |-> 0, cannonsAfter |-> 0, isDead |-> res.destroyed,
                  overlaps |-> Overlaps(w, q), at |-> q.position, age |-> q.lifetime,
                  targetAt |-> rock.position]
    IN  [w EXCEPT !.rocks = IF res.destroyed THEN DeleteId(@, rock.id)
                            ELSE [@ EXCEPT ![k] = res.rock],
                  !.hits = Append(@, entry)]

\* A projectile hits the first player it collides with (lines 578-588).
HitPlayer(w, q, k, draws, conns) ==
    LET player == w.players[k]
        res == takeDamage(player, q.damage)
        entry == [projectile |-> q.id, ownerId |-> q.ownerId, kind |-> "ship",
                  target |-> player.id, hpBefore |-> player.hp, hpAfter |-> res.player.hp,
                  maxHp |-> player.maxHp,
                  cannonsBefore |-> player.cannons, cannonsAfter |-> res.player.cannons,
                  isDead |-> res.isDead, overlaps |-> Overlaps(w, q),
                  at |-> q.position, age |-> q.lifetime, targetAt |-> player.position]
        w1 == [w EXCEPT !.players[k] = res.player, !.hits = Append(@, entry)]
    IN  IF res.isDead THEN handlePlayerDeath(w1, k, q.ownerId, player.hp, draws, conns)
        ELSE w1

\* Mutant of ProjectileStep: after a rock hit the ships are still tested.
ProjectileStep_NoSkip(st, j, dt, draws, conns) ==
    LET w == st.w
        q == ProjectileUpdate(w.projectiles[j], dt)
        w1 == [w EXCEPT !.projectiles[j] = q]
        marked == [w |-> w1, remove |-> Append(st.remove, q.id)]
        retired == [marked EXCEPT !.w.retired = Append(@, Retired(w1, q))]
        rockHits == {k \in 1..Len(w1.rocks) : collidesWith(q, w1.rocks[k])}
        w2 == IF rockHits # {} THEN HitRock(w1, q, FirstIdx(rockHits)) ELSE w1
        shipHits == HitCandidates(w2, q)
    IN  IF isExpired(q) THEN retired
        ELSE IF \/ q.position.x < 0 \/ q.position.x > width
                \/ q.position.y < 0 \/ q.position.y > height THEN retired
        ELSE IF shipHits # {}
             THEN [marked EXCEPT !.w = HitPlayer(w2, q, FirstIdx(shipHits), draws, conns)]
        ELSE IF rockHits # {} THEN [marked EXCEPT !.w = w2]
        ELSE [w |-> w1, remove |-> st.remove]

\* One iteration of the projectile loop, for the projectile at index j;
\* st.remove is projectilesToRemove.
ProjectileStep(st, j, dt, draws, conns) ==
    LET w == st.w
        q == ProjectileUpdate(w.projectiles[j], dt)
        w1 == [w EXCEPT !.projectiles[j] = q]
        marked == [w |-> w1, remove |-> Append(st.remove, q.id)]
        retired == [marked EXCEPT !.w.retired = Append(@, Retired(w1, q))]
        rockHits == {k \in 1..Len(w1.rocks) : collidesWith(q, w1.rocks[k])}
        shipHits == HitCandidates(w1, q)
    IN  IF isExpired(q) THEN retired
        ELSE IF \/ q.position.x < 0 \/ q.position.x > width
                \/ q.position.y < 0 \/ q.position.y > height THEN retired
        ELSE IF rockHits # {}
             THEN [marked EXCEPT !.w = HitRock(w1, q, FirstIdx(rockHits))]
        ELSE IF shipHits # {}
             THEN [marked EXCEPT !.w = HitPlayer(w1, q, FirstIdx(shipHits), draws, conns)]
        ELSE [w |-> w1, remove |-> st.remove]

RECURSIVE ProjectileLoop(_, _, _, _, _)
ProjectileLoop(st, j, dt, draws, conns) ==
    IF j > Len(st.w.projectiles) THEN st
    ELSE ProjectileLoop(ProjectileStep(st, j, dt, draws, conns), j + 1, dt, draws, conns)

\* World.updateProjectiles
updateProjectiles(w, dt, draws, conns) ==
    LET st == ProjectileLoop([w |-> w, remove |-> <<>>], 1, dt, draws, conns)
        gone == {st.remove[n] : n \in 1..Len(st.remove)}
    IN  [st.w EXCEPT !.projectiles = SelectSeq(@, LAMBDA q : q.id \notin gone)]

---------------------------------------------------------------------------
(* World.checkResourceCollisions (lines 600-629) *)

\* Mutant of PickupStep: a chest that has no effect stays in the world.
PickupStep_KeepChest(st, i, k) ==
    LET w == st.w
        player == w.players[i]
        resource == w.resources[k]
        after == IF resource.resourceType = "wood" THEN addHp(player, resource.value)
                 ELSE IF resource.resourceType = "chest" /\ player.hp >= 6
                      THEN updateCannons(player)
                      ELSE player
        entry == [player |-> player.id, resource |-> resource.id,
                  resourceType |-> resource.resourceType, value |-> resource.value,
                  playerAt |-> player.position, resourceAt |-> resource.position,
                  before |-> [hp |-> player.hp, size |-> player.size, cannons |-> player.cannons],
                  after |-> [hp |-> after.hp, size |-> after.size, cannons |-> after.cannons]]
    IN  IF collidesWith(player, resource)
        THEN [w |-> [w EXCEPT !.players[i] = after, !.pickups = Append(@, entry)],
              remove |-> IF resource.resourceType = "chest" /\ player.hp < 6
                         THEN st.remove ELSE Append(st.remove, resource.id)]
        ELSE st

\* The body of the inner loop for player i and resource k.
PickupStep(st, i, k) ==
    LET w == st.w
        player == w.players[i]
        resource == w.resources[k]
        after == IF resource.resourceType = "wood" THEN addHp(player, resource.value)
                 ELSE IF resource.resourceType = "chest" /\ player.hp >= 6
                      THEN updateCannons(player)
                      ELSE player
        entry == [player |-> player.id, resource |-> resource.id,
                  resourceType |-> resource.resourceType, value |-> resource.value,
                  playerAt |-> player.position, resourceAt |-> resource.position,
                  before |-> [hp |-> player.hp, size |-> player.size, cannons |-> player.cannons],
                  after |-> [hp |-> after.hp, size |-> after.size, cannons |-> after.cannons]]
    IN  IF collidesWith(player, resource)
        THEN [w |-> [w EXCEPT !.players[i] = after, !.pickups = Append(@, entry)],
              remove |-> Append(st.remove, resource.id)]
        ELSE st

RECURSIVE PickupLoop(_, _, _)
PickupLoop(st, i, k) ==
    IF i > Len(st.w.players) THEN st
    ELSE IF k > Len(st.w.resources) THEN PickupLoop(st, i + 1, 1)
    ELSE PickupLoop(PickupStep(st, i, k), i, k + 1)

\* World.checkResourceCollisions
checkResourceCollisions(w) ==
    LET st == PickupLoop([w |-> w, remove |-> <<>>], 1, 1)
        gone == {st.remove[n] : n \in 1..Len(st.remove)}
    IN  [st.w EXCEPT !.resources = SelectSeq(@, LAMBDA r : r.id \notin gone)]

\* Mutant of WorldUpdate: the resources are collected before the
\* projectiles are advanced.
WorldUpdate_PickupsFirst(w, dt, draws, conns) ==
    updateProjectiles(checkResourceCollisions(MovePlayers(w, 1, dt)), dt, draws, conns)

\* World.update(deltaTime)
WorldUpdate(w, dt, draws, conns) ==
    checkResourceCollisions(updateProjectiles(MovePlayers(w, 1, dt), dt, draws, conns))

---------------------------------------------------------------------------
(* Visibility and deltas *)

\* The ids of the entities of a collection, in order, that satisfy Test.
IdsWhere(s, Test(_)) ==
    LET kept == SelectSeq(s, Test) IN [i \in 1..Len(kept) |-> kept[i].id]

\* An entity list holds references; a reference is the entity's id, and
\* reading through it yields the fields the entity has now.
Deref(heap, ref) == heap[IndexOfId(heap, ref)]

\* Mutant of InView: an entity exactly at the edge of the viewport is seen.
InView_Inclusive(player, e, viewportRadius) ==
    distanceSq(e.position, player.position) <=
        (viewportRadius + e.size) * (viewportRadius + e.size)

\* distance < viewportRadius + entity.size (lines 343-347 and alike).
InView(player, e, viewportRadius) ==
    DistLess(distanceSq(e.position, player.position), viewportRadius + e.size)

\* World.getVisibleEntities
getVisibleEntities(w, player) ==
    LET viewportRadius == 500 + player.size * 3
    IN  [ships |-> IdsWhere(w.players,
                      LAMBDA o : o.id # player.id /\ InView(player, o, viewportRadius)),
         resources |-> IdsWhere(w.resources, LAMBDA e : InView(player, e, viewportRadius)),
         rocks |-> IdsWhere(w.rocks, LAMBDA e : InView(player, e, viewportRadius)),
         projectiles |-> IdsWhere(w.projectiles, LAMBDA e : InView(player, e, viewportRadius))]

\* Mutant of getVisibleEntitiesWithRadius: resources are filtered by
\* distance in the initial state too.
getVisibleEntitiesWithRadius_Filtered(w, player, viewportRadius) ==
    [ships |-> IdsWhere(w.players, LAMBDA o : o.id # player.id),
     resources |-> IdsWhere(w.resources, LAMBDA e : InView(player, e, viewportRadius)),
     rocks |-> IdsWhere(w.rocks, LAMBDA e : InView(player, e, viewportRadius)),
     projectiles |-> IdsWhere(w.projectiles, LAMBDA e : InView(player, e, viewportRadius))]

\* World.getVisibleEntitiesWithRadius
getVisibleEntitiesWithRadius(w, player, viewportRadius) ==
    LET isInitialState == viewportRadius > 2000
    IN  [ships |-> IdsWhere(w.players, LAMBDA o : o.id # player.id),
         resources |-> IdsWhere(w.resources,
                          LAMBDA e : isInitialState \/ InView(player, e, viewportRadius)),
         rocks |-> IdsWhere(w.rocks, LAMBDA e : InView(player, e, viewportRadius)),
         projectiles |-> IdsWhere(w.projectiles, LAMBDA e : InView(player, e, viewportRadius))]

\* Mutant of RemovedEntries: an entity that left the list is not reported.
RemovedEntries_None(previous, current) == <<>>

\* The removal entries of World.getEntityTypeUpdates (lines 416-423).
RemovedEntries(previous, current) ==
    LET gone == SelectSeq(previous, LAMBDA ref : \A i \in 1..Len(current) : current[i] # ref)
    IN  [i \in 1..Len(gone) |-> [id |-> gone[i], removed |-> TRUE]]

\* Whether an entity of the current list is emitted (lines 428-441):
\* previous.find yields the reference stored earlier, which is the entity
\* itself, so both sides of each comparison read the same object.
NeedsUpdate(heap, previous, ref) ==
    IF \A i \in 1..Len(previous) : previous[i] # ref THEN TRUE
    ELSE LET entity == Deref(heap, ref)
             prevEntity == Deref(heap, previous[FirstIdx({i \in 1..Len(previous) : previous[i] = ref})])
         IN  \/ entity.position.x # prevEntity.position.x
             \/ entity.position.y # prevEntity.position.y
             \/ entity.hp # prevEntity.hp

\* World.getEntityTypeUpdates, for rocks: the entries it pushes.
getEntityTypeUpdates(heap, previous, current) ==
    LET emitted == SelectSeq(current, LAMBDA ref : NeedsUpdate(heap, previous, ref))
    IN  RemovedEntries(previous, current)
        \o [i \in 1..Len(emitted) |-> RockSerialize(Deref(heap, emitted[i]))]

\* World.getEntityUpdates
getEntityUpdates(w, previousEntities, currentEntities) ==
    [i \in 1..Len(currentEntities.ships) |->
        PlayerSerialize(Deref(w.players, currentEntities.ships[i]))]
    \o [i \in 1..Len(currentEntities.resources) |->
        ResourceSerialize(Deref(w.resources, currentEntities.resources[i]))]
    \o getEntityTypeUpdates(w.rocks, previousEntities.rocks, currentEntities.rocks)

\* The body of the loop of GameServer.sendUpdates for the player at index i.
SendUpdate(w, i, conns) ==
    LET player == w.players[i]
        currentVisibleEntities == getVisibleEntities(w, player)
        entityUpdates == getEntityUpdates(w, player.lastKnownEntities, currentVisibleEntities)
        msg == [player |-> PlayerSerialize(player), entities |-> entityUpdates,
                projectiles |-> [k \in 1..Len(currentVisibleEntities.projectiles) |->
                    ProjectileSerialize(Deref(w.projectiles, currentVisibleEntities.projectiles[k]))]]
        w1 == IF Len(entityUpdates) > 0 THEN Emit(w, {player.id}, "game:update", msg) ELSE w
        nowRocks == [k \in 1..Len(currentVisibleEntities.rocks) |->
                        RockSerialize(Deref(w.rocks, currentVisibleEntities.rocks[k]))]
        entry == [id |-> player.id, entities |-> entityUpdates,
                  previous |-> player.lastKnownEntities, current |-> currentVisibleEntities,
                  prevRocks |-> w.sent[player.id], curRocks |-> nowRocks]
    IN  IF player.id \notin conns THEN w
        ELSE [w1 EXCEPT !.players[i].lastKnownEntities = currentVisibleEntities,
                        !.sent[player.id] = nowRocks,
                        !.deltas = Append(@, entry)]

RECURSIVE SendLoop(_, _, _)
SendLoop(w, i, conns) ==
    IF i > Len(w.players) THEN w ELSE SendLoop(SendUpdate(w, i, conns), i + 1, conns)

\* GameServer.sendUpdates
sendUpdates(w, conns) == IF Len(w.players) = 0 THEN w ELSE SendLoop(w, 1, conns)

\* GameServer.broadcastShipPositions
broadcastShipPositions(w, conns) ==
    IF Len(w.players) = 0 THEN w
    ELSE Emit(w, conns, "ships:batch_update",
              [i \in 1..Len(w.players) |-> PlayerSerialize(w.players[i])])

---------------------------------------------------------------------------
(* Inputs: the values Math.random and the clients supply *)

\* Candidate spawn positions (inside the 100-unit margin) and the fallback
\* position near the centre, as drawn by World.getRandomSpawnPosition.
SpawnA == Pos(1000, 1000)
SpawnB == Pos(1000, 1160)
SpawnCandidates == {SpawnA, SpawnB}
FallbackPositions == {Pos(5500, 5500)}

\* The draws of the random spawns of one handler, in the order they are
\* used; one call's draws are the same candidate on each of the ten attempts.
DrawSeqs ==
    {<<[attempts |-> [n \in 1..10 |-> c], fallback |-> f, offset |-> Pos(0, 0)]>> :
        c \in SpawnCandidates, f \in FallbackPositions}

\* Starting angles of a new ship.
JoinAngles == {0}

\* Whether a tick finds the ship broadcast due: with the tick period of the
\* model (at least 50 ms) every tick does.
BroadcastDue == {TRUE}

\* Join payloads: name and shipType.
JoinData == {[name |-> "Ann", shipType |-> 0]}

\* player:controls payloads; a field may be missing.
ControlPayloads ==
    {[moveForward |-> TRUE],
     [moveForward |-> TRUE, rotateRight |-> TRUE],
     [moveForward |-> TRUE, rotateLeft |-> TRUE, rotateRight |-> FALSE]}

\* The player:controls payload that is the empty object.
EmptyPayload == [f \in {} |-> FALSE]

\* Rocks drawn by World.generateInitialRocks: position and size
\* (size = 20 + Math.random() * 30, hp = floor(size / 10)).
RockNear(size) == [position |-> Pos(1000, 840), size |-> size]
RockFar == [position |-> Pos(3000, 3000), size |-> 45]
RockLayouts ==
    {[n \in 1..initialRockCount |-> IF n = 1 THEN RockNear(size) ELSE RockFar] :
        size \in {30}}

\* Positions drawn by World.generateInitialResources for the wood it places.
WoodPile == Pos(1000, 1160)
\* Entities at the edge of the viewport of a new ship (size 20, viewport
\* radius 560) at SpawnA: a rock of size 45 at distance 605, a wood of size
\* 15 at distance 575 and another at distance 574.
RockAtEdge == [position |-> Pos(1605, 1000), size |-> 45]
WoodAtEdge == Pos(425, 1000)
WoodInsideEdge == Pos(426, 1000)
\* Rocks of size 45 at the edge of the initial-state radius of a ship at
\* the fallback spawn position: at distance 2545 and at distance 2544.
RockInside2500 == [position |-> Pos(5500, 2956), size |-> 45]
WoodLayouts ==
    {[n \in 1..initialWoodCount |-> WoodPile],
     [n \in 1..initialWoodCount |-> IF n = 1 THEN Pos(1000, 880) ELSE WoodPile]}

---------------------------------------------------------------------------
(* The interval timers *)

\* No timer has been created: the handles are null and the periods are
\* World's defaults.
NoTimers ==
    [live |-> {}, nextTimer |-> 1,
     tickInterval |-> 0, woodSpawnInterval |-> 0, chestSpawnInterval |-> 0,
     rockSpawnInterval |-> 0,
     woodSpawnIntervalMs |-> woodSpawnIntervalMs,
     chestSpawnIntervalMs |-> chestSpawnIntervalMs,
     rockSpawnIntervalMs |-> rockSpawnIntervalMs]

\* setInterval(callback, period): a new live timer; its handle is the value
\* of nextTimer before the call.
setInterval(tm, kind, period) ==
    [tm EXCEPT !.live = @ \cup {[id |-> tm.nextTimer, kind |-> kind, period |-> period]},
               !.nextTimer = @ + 1]

\* clearInterval(handle)
clearInterval(tm, handle) ==
    [tm EXCEPT !.live = {t \in @ : t.id # handle}]

\* World.startResourceSpawning: a wood timer and a rock timer, with the
\* stored periods; the handles are overwritten. No chest timer is created.
startResourceSpawning(tm) ==
    LET a == [setInterval(tm, "wood", tm.woodSpawnIntervalMs)
                 EXCEPT !.woodSpawnInterval = tm.nextTimer]
    IN  [setInterval(a, "rock", a.rockSpawnIntervalMs)
            EXCEPT !.rockSpawnInterval = a.nextTimer]

\* World.stopResourceSpawning
stopResourceSpawning(tm) ==
    LET a == IF tm.woodSpawnInterval # 0
             THEN [clearInterval(tm, tm.woodSpawnInterval) EXCEPT !.woodSpawnInterval = 0]
             ELSE tm
        b == IF a.chestSpawnInterval # 0
             THEN [clearInterval(a, a.chestSpawnInterval) EXCEPT !.chestSpawnInterval = 0]
             ELSE a
    IN  IF b.rockSpawnInterval # 0
        THEN [clearInterval(b, b.rockSpawnInterval) EXCEPT !.rockSpawnInterval = 0]
        ELSE b

\* Mutant of start: a call while running is not ignored.
start_Unguarded(tm) ==
    LET a == startResourceSpawning(tm)
    IN  [setInterval(a, "tick", 1000 \div tickRate) EXCEPT !.tickInterval = a.nextTimer]

\* GameServer.start
start(tm) ==
    IF tm.tickInterval # 0 THEN tm
    ELSE LET a == startResourceSpawning(tm)
         IN  [setInterval(a, "tick", 1000 \div tickRate) EXCEPT !.tickInterval = a.nextTimer]

\* GameServer.stop
stop(tm) ==
    LET a == IF tm.tickInterval # 0
             THEN [clearInterval(tm, tm.tickInterval) EXCEPT !.tickInterval = 0]
             ELSE tm
    IN  stopResourceSpawning(a)

\* Mutant of setResourceSpawnIntervals: the timers are restarted whether or
\* not they were running.
setResourceSpawnIntervals_Always(tm, woodMs, chestMs, rockMs) ==
    startResourceSpawning(stopResourceSpawning(
        [tm EXCEPT !.woodSpawnIntervalMs = woodMs, !.chestSpawnIntervalMs = chestMs,
                   !.rockSpawnIntervalMs = rockMs]))

\* World.setResourceSpawnIntervals
setResourceSpawnIntervals(tm, woodMs, chestMs, rockMs) ==
    LET a == [tm EXCEPT !.woodSpawnIntervalMs = woodMs, !.chestSpawnIntervalMs = chestMs,
                        !.rockSpawnIntervalMs = rockMs]
    IN  IF a.woodSpawnInterval # 0 \/ a.chestSpawnInterval # 0 \/ a.rockSpawnInterval # 0
        THEN startResourceSpawning(stopResourceSpawning(a))
        ELSE a

\* A live timer of the given kind.
TimerLive(kind) == \E t \in timers.live : t.kind = kind

---------------------------------------------------------------------------
(* Construction: new GameServer(io) -> new World(11000, 11000, io) *)

\* World.generateInitialRocks
generateInitialRocks(layout, firstId) ==
    [n \in 1..Len(layout) |->
        Rock(firstId + n - 1, layout[n].position, layout[n].size, layout[n].size \div 10)]

\* World.generateInitialResources(woodCount, 0): the loop over the wood
\* attempts; an unsafe position is skipped.
RECURSIVE generateInitialResources(_, _, _)
generateInitialResources(w, layout, n) ==
    IF n > Len(layout) THEN w
    ELSE IF ~isPositionSafe(w, layout[n], 30)
         THEN generateInitialResources(w, layout, n + 1)
         ELSE generateInitialResources(
                [w EXCEPT !.resources = Append(@, Resource(w.nextId, layout[n], "wood", 1)),
                          !.nextId = @ + 1],
                layout, n + 1)

\* World.generateInitialResources(woodCount, chestCount): the loop over the
\* chest attempts; an unsafe position is skipped.
RECURSIVE generateInitialChests(_, _, _)
generateInitialChests(w, layout, n) ==
    IF n > Len(layout) THEN w
    ELSE IF ~isPositionSafe(w, layout[n], 30)
         THEN generateInitialChests(w, layout, n + 1)
         ELSE generateInitialChests(
                [w EXCEPT !.resources = Append(@, Resource(w.nextId, layout[n], "chest", 1)),
                          !.nextId = @ + 1],
                layout, n + 1)

NoneSent == [s \in Sockets |-> <<>>]

EmptyObs ==
    [kind |-> "init", who |-> 0, accepted |-> FALSE, before |-> <<>>,
     moves |-> <<>>, hits |-> <<>>, deaths |-> <<>>, pickups |-> <<>>, deltas |-> <<>>,
     spawns |-> <<>>, placements |-> <<>>, retired |-> <<>>]

\* The observations a handler leaves: what it was, for whom, and the log of w.
Observe(kind, who, accepted, before, w) ==
    [kind |-> kind, who |-> who, accepted |-> accepted, before |-> before,
     moves |-> w.moves, hits |-> w.hits, deaths |-> w.deaths, pickups |-> w.pickups,
     deltas |-> w.deltas, spawns |-> w.spawns, placements |-> w.placements,
     retired |-> w.retired]

FirstEntityId == Cardinality(Sockets) + 1

\* The state after construction and gameServer.start(), for the given draws
\* of the initial rocks, wood and chests.
InitFull(rockLayouts, woodLayouts, chestLayouts) ==
    \E rockLayout \in rockLayouts, woodLayout \in woodLayouts, chestLayout \in chestLayouts :
        LET ks == generateInitialRocks(rockLayout, FirstEntityId)
            w0 == World(<<>>, <<>>, ks, <<>>, FirstEntityId + Len(ks), NoneSent)
            w1 == generateInitialChests(generateInitialResources(w0, woodLayout, 1),
                                        chestLayout, 1)
        IN  /\ players = <<>>
            /\ gsPlayers = <<>>
            /\ sockets = {}
            /\ usedSockets = {}
            /\ resources = w1.resources
            /\ rocks = w1.rocks
            /\ projectiles = <<>>
            /\ nextId = w1.nextId
            /\ ticks = 0
            /\ msgs = 0
            /\ outbox = <<>>
            /\ obs = EmptyObs
            /\ sentRocks = NoneSent
            /\ departed = {}
            /\ sinceFire = [s \in Sockets |-> -1]
            /\ config = [initialRockCount |-> initialRockCount,
                         woodSpawnQuantity |-> woodSpawnQuantity,
                         chestSpawnQuantity |-> 0,
                         rockSpawnQuantity |-> rockSpawnQuantity,
                         maxRockCount |-> maxRockCount,
                         maxWoodCount |-> maxWoodCount]
            /\ firings = 0
            /\ timers = start(NoTimers)
            /\ listening = TRUE

\* The state after construction as the constructor calls it: no chests.
InitWith(rockLayouts, woodLayouts) == InitFull(rockLayouts, woodLayouts, {<<>>})

Init == InitWith(RockLayouts, WoodLayouts)

\* The world as a handler finds it.
Now == World(players, resources, rocks, projectiles, nextId, sentRocks)

\* The world as a handler leaves it.
Commit(w) ==
    /\ players' = w.players
    /\ resources' = w.resources
    /\ rocks' = w.rocks
    /\ projectiles' = w.projectiles
    /\ nextId' = w.nextId
    /\ sentRocks' = w.sent
    /\ outbox' = w.out

---------------------------------------------------------------------------
(* GameServer: the handlers *)

\* A client message arrives.
Received(limit) == msgs < limit /\ msgs' = msgs + 1

\* The tick timer has fired once more.
Elapsed(limit) == ticks < limit /\ ticks' = ticks + 1

\* io.on('connection'): a new connection with a fresh id (ids are handed
\* out in increasing order).
Connect(s) ==
    /\ s \notin usedSockets
    /\ \A t \in Sockets : t < s => t \in usedSockets
    /\ sockets' = sockets \cup {s}
    /\ usedSockets' = usedSockets \cup {s}
    /\ outbox' = <<>>
    /\ obs' = [EmptyObs EXCEPT !.kind = "connect", !.who = s]
    /\ UNCHANGED <<players, gsPlayers, resources, rocks, projectiles, nextId,
                   sentRocks, departed, sinceFire>>

\* GameServer.sendInitialState
sendInitialState(w, s) ==
    IF ~HasId(w.players, s) THEN w
    ELSE LET player == Deref(w.players, s)
             v == getVisibleEntitiesWithRadius(w, player, 2500)
         IN  Emit(w, {s}, "game:state",
                [player |-> PlayerSerialize(player),
                 ships |-> [i \in 1..Len(v.ships) |-> PlayerSerialize(Deref(w.players, v.ships[i]))],
                 resources |-> [i \in 1..Len(v.resources) |->
                                  ResourceSerialize(Deref(w.resources, v.resources[i]))],
                 rocks |-> [i \in 1..Len(v.rocks) |-> RockSerialize(Deref(w.rocks, v.rocks[i]))],
                 projectiles |-> [i \in 1..Len(v.projectiles) |->
                                  ProjectileSerialize(Deref(w.projectiles, v.projectiles[i]))]])

\* GameServer.handlePlayerJoin
handlePlayerJoin(w, s, data, angle, draws, conns) ==
    LET placed == getRandomSpawnPosition(w, DrawAt(draws, w.rand))
        spawnPosition == placed.position
        player == Player(s, IF data.name # "" THEN data.name ELSE "Guest",
                         spawnPosition, data.shipType, 1, 2, angle)
        w1 == addPlayer([w EXCEPT !.rand = @ + 1, !.sent[s] = <<>>,
                                  !.placements = Append(@, Placement(w, placed))], player)
        w2 == sendInitialState(w1, s)
    IN  Emit(w2, conns, "game:killfeed", <<player.name, "joined">>)

\* socket.on('player:join')
\* socket.on('player:join'); obs.before holds the ship the connection had.
Join(s, data, angle, draws) ==
    /\ s \in sockets
    /\ LET w == handlePlayerJoin(Now, s, data, angle, draws, sockets)
       IN  /\ Commit(w)
           /\ gsPlayers' = IF \E i \in 1..Len(gsPlayers) : gsPlayers[i] = s
                           THEN gsPlayers ELSE Append(gsPlayers, s)
           /\ obs' = Observe("join", s, TRUE,
                             [ship |-> SelectSeq(players, LAMBDA p : p.id = s)], w)
    /\ sinceFire' = [sinceFire EXCEPT ![s] = -1]
    /\ UNCHANGED <<sockets, usedSockets, departed>>

\* A field of a message payload, `|| false` when it is missing.
Field(payload, f) == IF f \in DOMAIN payload THEN payload[f] ELSE FALSE

\* Mutant of handlePlayerControls: a missing field keeps its stored value.
handlePlayerControls_Merge(w, ids, playerId, controls) ==
    IF \A i \in 1..Len(ids) : ids[i] # playerId THEN w
    ELSE LET old == Deref(w.players, playerId).controls
         IN  [w EXCEPT !.players[IndexOfId(w.players, playerId)].controls =
                [f \in DOMAIN old |-> IF f \in DOMAIN controls THEN controls[f] ELSE old[f]]]

\* GameServer.handlePlayerControls
handlePlayerControls(w, ids, playerId, controls) ==
    IF \A i \in 1..Len(ids) : ids[i] # playerId THEN w
    ELSE [w EXCEPT !.players[IndexOfId(w.players, playerId)].controls =
            [moveForward |-> Field(controls, "moveForward"),
             rotateLeft |-> Field(controls, "rotateLeft"),
             rotateRight |-> Field(controls, "rotateRight")]]

\* socket.on('player:controls')
Controls(s, payload) ==
    /\ s \in sockets
    /\ LET w == handlePlayerControls(Now, gsPlayers, s, payload)
       IN  /\ Commit(w)
           /\ obs' = Observe("controls", s, HasId(players, s),
                             [payload |-> payload,
                              controls |-> IF HasId(players, s)
                                           THEN <<Deref(players, s).controls>> ELSE <<>>], w)
    /\ UNCHANGED <<gsPlayers, sockets, usedSockets, departed, sinceFire>>

\* GameServer.handleCannonFire
handleCannonFire(w, ids, playerId) ==
    IF \A i \in 1..Len(ids) : ids[i] # playerId THEN w
    ELSE IF Deref(w.players, playerId).cannons >= 2 THEN createProjectiles(w, playerId)
    ELSE w

\* socket.on('player:fire'); obs.before holds the ship and the projectile
\* collection as the request found them.
Fire(s) ==
    /\ s \in sockets
    /\ LET w == handleCannonFire(Now, gsPlayers, s)
       IN  /\ Commit(w)
           /\ obs' = Observe("fire", s, Len(w.projectiles) # Len(projectiles),
                             [ship |-> IF HasId(players, s) THEN <<Deref(players, s)>> ELSE <<>>,
                              projectiles |-> projectiles,
                              sinceFire |-> sinceFire[s]], w)
           /\ sinceFire' = IF Len(w.projectiles) # Len(projectiles)
                            THEN [sinceFire EXCEPT ![s] = 0] ELSE sinceFire
    /\ UNCHANGED <<gsPlayers, sockets, usedSockets, departed>>

\* The loop of GameServer.handleShipUpdateRequest over the other ships.
RECURSIVE SendShips(_, _, _, _)
SendShips(w, ids, playerId, n) ==
    IF n > Len(ids) THEN w
    ELSE IF ids[n] = playerId THEN SendShips(w, ids, playerId, n + 1)
    ELSE SendShips(Emit(w, {playerId}, "ship:update", PlayerSerialize(Deref(w.players, ids[n]))),
                   ids, playerId, n + 1)

\* Mutant of handleShipUpdateRequest: the requester is not looked up.
handleShipUpdateRequest_NoLookup(w, ids, playerId, conns) ==
    IF playerId \notin conns THEN w
    ELSE SendShips(w, ids, playerId, 1)

\* GameServer.handleShipUpdateRequest
handleShipUpdateRequest(w, ids, playerId, conns) ==
    IF \A i \in 1..Len(ids) : ids[i] # playerId THEN w
    ELSE IF playerId \notin conns THEN w
    ELSE SendShips(w, ids, playerId, 1)

\* socket.on('request:ships')
RequestShips(s) ==
    /\ s \in sockets
    /\ LET w == handleShipUpdateRequest(Now, gsPlayers, s, sockets)
       IN  /\ Commit(w)
           /\ obs' = Observe("ships", s, HasId(players, s), <<>>, w)
    /\ UNCHANGED <<gsPlayers, sockets, usedSockets, departed, sinceFire>>

\* GameServer.handlePlayerDisconnect; conns are the connections still open.
handlePlayerDisconnect(w, ids, playerId, conns) ==
    IF \A i \in 1..Len(ids) : ids[i] # playerId THEN w
    ELSE LET player == Deref(w.players, playerId)
             removalData == [id |-> playerId, removed |-> TRUE]
             w1 == Emit(w, conns, "entity:removed", removalData)
             w2 == Emit(w1, conns, "ship:update", removalData)
             w3 == removePlayer(w2, playerId)
         IN  Emit(w3, conns, "game:killfeed", <<player.name, "left">>)

\* The players whose last snapshot holds the ship with the given id.
SeenBy(ps, id) ==
    {ps[i].id : i \in {k \in 1..Len(ps) : id \in Range(ps[k].lastKnownEntities.ships)}}

\* socket.on('disconnect'): the connection is closed when the handler runs.
Disconnect(s) ==
    /\ s \in sockets
    /\ sockets' = sockets \ {s}
    /\ LET w == handlePlayerDisconnect(Now, gsPlayers, s, sockets \ {s})
       IN  /\ Commit(w)
           /\ obs' = Observe("disconnect", s, HasId(players, s), <<>>, w)
    /\ gsPlayers' = SelectSeq(gsPlayers, LAMBDA id : id # s)
    /\ departed' = IF HasId(players, s)
                   THEN departed \cup {[id |-> s, seenBy |-> SeenBy(players, s)]}
                   ELSE departed
    /\ UNCHANGED <<usedSockets, sinceFire>>

\* GameServer.update: one tick. due tells whether 50 ms have passed since
\* the last ship broadcast.
GameServerUpdate(w, due, draws, conns) ==
    LET w1 == WorldUpdate(w, deltaTime, draws, conns)
        w2 == IF due THEN broadcastShipPositions(w1, conns) ELSE w1
    IN  sendUpdates(w2, conns)

\* The tick timer fires.
Tick(due, draws) ==
    /\ LET w == GameServerUpdate(Now, due, draws, sockets)
       IN  /\ Commit(w)
           /\ obs' = Observe("tick", 0, TRUE,
                             [departed |-> departed,
                              respawned |-> IF obs.kind = "tick"
                                            THEN {obs.deaths[k].id : k \in 1..Len(obs.deaths)}
                                            ELSE {}], w)
    /\ departed' = {}
    /\ sinceFire' = [s \in Sockets |->
                        IF sinceFire[s] < 0 THEN sinceFire[s]
                        ELSE Min(sinceFire[s] + deltaTime, cannonCooldownTime)]
    /\ UNCHANGED <<gsPlayers, sockets, usedSockets>>

\* The steps of a run: a connection, a client message or a tick, with at
\* most maxMessages messages and maxTicks ticks; a connection joins once.
StepWith(conns, payloads, joinData, drawSeqs, maxMessages, maxTicks) ==
    \/ \E s \in conns : Connect(s) /\ UNCHANGED <<msgs, ticks, config, firings, timers, listening>>
    \/ \E s \in conns, data \in joinData, angle \in JoinAngles, draws \in drawSeqs :
          ~HasId(players, s) /\ Join(s, data, angle, draws)
              /\ Received(maxMessages) /\ UNCHANGED <<ticks, config, firings, timers, listening>>
    \/ \E s \in conns, payload \in payloads :
          Controls(s, payload) /\ Received(maxMessages) /\ UNCHANGED <<ticks, config, firings, timers, listening>>
    \/ \E s \in conns : Fire(s) /\ Received(maxMessages) /\ UNCHANGED <<ticks, config, firings, timers, listening>>
    \/ \E s \in conns : RequestShips(s) /\ Received(maxMessages) /\ UNCHANGED <<ticks, config, firings, timers, listening>>
    \/ \E s \in conns : Disconnect(s) /\ Received(maxMessages) /\ UNCHANGED <<ticks, config, firings, timers, listening>>
    \/ \E due \in BroadcastDue, draws \in drawSeqs :
          TimerLive("tick") /\ Tick(due, draws) /\ Elapsed(maxTicks)
              /\ UNCHANGED <<msgs, config, firings, timers, listening>>

\* The steps with the usual draws of the spawn positions.
Step(conns, payloads, maxMessages, maxTicks) ==
    StepWith(conns, payloads, JoinData, DrawSeqs, maxMessages, maxTicks)

Next == Step(Sockets, ControlPayloads, MaxMessages, MaxTicks)

Spec == Init /\ [][Next]_vars

\* Runs of two connections in a world that has wood at the fallback spawn
\* position (5500, 5500), long enough for one ship to set its controls, be
\* sunk by the other and move on.
DuelInit ==
    InitWith(RockLayouts,
             {[n \in 1..initialWoodCount |-> IF n = 1 THEN Pos(5500, 5500) ELSE WoodPile]})

DuelSpec == DuelInit /\ [][Step(Sockets, ControlPayloads, DuelMessages, DuelTicks)]_vars

\* Runs of a single connection that sends player:controls payloads of every
\* shape: the empty object, one, two or three fields, true and false values.
HelmSpec ==
    Init /\ [][Step({1},
                    ControlPayloads \cup
                    {EmptyPayload, [rotateRight |-> TRUE],
                     [moveForward |-> FALSE, rotateLeft |-> TRUE]},
                    HelmMessages, HelmTicks)]_vars

\* Runs in a world that has entities exactly at and just inside the edge
\* of a new ship's viewport.
ViewSpec ==
    InitWith({[n \in 1..initialRockCount |-> IF n = 1 THEN RockNear(30) ELSE RockAtEdge]},
             {[n \in 1..initialWoodCount |->
                 IF n = 1 THEN WoodInsideEdge ELSE IF n = 2 THEN WoodAtEdge ELSE WoodPile]})
    /\ [][Next]_vars

\* Runs in a world that has rocks of size 45 exactly at and just inside the
\* edge of the initial-state radius of a ship that joins at the fallback
\* position: at distance 2545 and at distance 2544.
JoinSpec ==
    InitWith({[n \in 1..initialRockCount |->
                 IF n = 1 THEN RockInside2500
                 ELSE [position |-> Pos(5500, 2955), size |-> 45]]},
             WoodLayouts)
    /\ [][Next]_vars

\* Runs of a single connection, long enough for a cooldown to run out.
SoloSpec == Init /\ [][Step({1}, ControlPayloads, SoloMessages, SoloTicks)]_vars

\* Runs in which the spawn positions are drawn around the clearance (130)
\* of the rock of size 30 at (1000, 840): a candidate at distance 129 and
\* one at distance exactly 130. The draws of one getRandomSpawnPosition
\* call: ten unsafe candidates; nine unsafe ones and then the one at the
\* clearance; ten unsafe ones and an eleventh that would be safe; the same
\* open place every time.
PlaceNext ==
    LET TooClose == Pos(1000, 969)
        AtClearance == Pos(1000, 970)
        NearCentre == Pos(5450, 5590)
        PlaceDraws ==
            {[attempts |-> [n \in 1..10 |-> TooClose],
              fallback |-> NearCentre, offset |-> Pos(0, 0)],
             [attempts |-> [n \in 1..10 |-> IF n < 10 THEN TooClose ELSE AtClearance],
              fallback |-> NearCentre, offset |-> Pos(0, 0)],
             [attempts |-> [n \in 1..11 |-> IF n < 11 THEN TooClose ELSE SpawnB],
              fallback |-> NearCentre, offset |-> Pos(0, 0)],
             [attempts |-> [n \in 1..10 |-> SpawnA],
              fallback |-> NearCentre, offset |-> Pos(0, 0)]}
    IN  StepWith(Sockets, ControlPayloads, JoinData, {<<d>> : d \in PlaceDraws},
                 MaxMessages, MaxTicks)

PlaceSpec == Init /\ [][PlaceNext]_vars

\* Runs of two connections with names of their own, long enough for a ship
\* to fire, leave, and have its projectile sink the other.
FeudSpec ==
    DuelInit
    /\ [][StepWith(Sockets, {[moveForward |-> TRUE]},
                   {[name |-> "Ann", shipType |-> 0], [name |-> "Bob", shipType |-> 0]},
                   DrawSeqs, DuelMessages, DuelTicks)]_vars

\* Runs in which a projectile comes to overlap a rock and a ship at once: a
\* rock of size 30 at (5500, 5460) overlaps a ship at the fallback spawn
\* position, and a broadside from (5500, 5642) lands between the two.
CrossSpec ==
    InitWith({[n \in 1..initialRockCount |->
                 IF n = 1 THEN [position |-> Pos(5500, 5460), size |-> 30] ELSE RockFar],
              [n \in 1..initialRockCount |-> RockFar]},
             WoodLayouts)
    /\ [][StepWith(Sockets, ControlPayloads, JoinData,
                   {<<[attempts |-> [n \in 1..10 |-> Pos(5500, 5642)],
                       fallback |-> Pos(5500, 5500), offset |-> Pos(0, 0)]>>},
                   MaxMessages, MaxTicks)]_vars

\* Runs of one connection, long enough for a projectile to expire. A ship
\* that joins at (850, 120), sails one tick to (1000, 120) and fires sends
\* one projectile out of the world across the rock at the top edge and the
\* other, 900 units on, onto the rock at the end of its range.
RangeSpec ==
    InitWith({[n \in 1..initialRockCount |->
                 IF n = 1 THEN [position |-> Pos(1000, 0), size |-> 45]
                 ELSE [position |-> Pos(1000, 1032), size |-> 30]]},
             WoodLayouts)
    /\ [][StepWith({1}, {[moveForward |-> TRUE]}, JoinData,
                   {<<[attempts |-> [n \in 1..10 |-> Pos(850, 120)],
                       fallback |-> Pos(5500, 5500), offset |-> Pos(0, 0)]>>},
                   SoloMessages, SoloTicks)]_vars

\* Runs of one connection in a world built with chests
\* (generateInitialResources with chestCount > 0): a chest on the wood
\* pile, where a ship that joins collects the wood first, and a chest at
\* the other spawn candidate.
ChestSpec ==
    InitFull(RockLayouts, WoodLayouts, {<<WoodPile, SpawnA>>})
    /\ [][Step({1}, {[moveForward |-> TRUE]}, MaxMessages, MaxTicks)]_vars

\* Runs of two connections in a world built with chests and with twice the
\* wood on the wood pile, where a ship grows past 10 hp.
HoardSpec ==
    InitFull(RockLayouts, {[n \in 1..(2 * initialWoodCount) |-> WoodPile]},
             {<<WoodPile, SpawnA>>})
    /\ [][Step(Sockets, {[moveForward |-> TRUE]}, MaxMessages, MaxTicks)]_vars

\* Runs of two connections around one piece of wood at (1175, 1000): a ship
\* that joins at (1200, 1000) lies within reach of it, and a ship that
\* joins at (1000, 1000) and sails one tick comes within reach of it too,
\* 50 units from the other ship.
TwinSpec ==
    InitWith(RockLayouts,
             {[n \in 1..initialWoodCount |-> IF n = 1 THEN Pos(1175, 1000) ELSE WoodPile]})
    /\ [][StepWith(Sockets, {[moveForward |-> TRUE]}, JoinData,
                   {<<[attempts |-> [n \in 1..10 |-> c],
                       fallback |-> Pos(5500, 5500), offset |-> Pos(0, 0)]>> :
                       c \in {Pos(1000, 1000), Pos(1200, 1000)}},
                   MaxMessages, MaxTicks)]_vars

\* Runs of two connections in which a connection that has joined may send
\* player:join again.
RejoinNext ==
    \/ Step(Sockets, {[moveForward |-> TRUE]}, MaxMessages, MaxTicks)
    \/ \E s \in Sockets, data \in {[name |-> "Bob", shipType |-> 1]}, angle \in JoinAngles,
          draws \in DrawSeqs :
          HasId(players, s) /\ Join(s, data, angle, draws) /\ Received(MaxMessages)
              /\ UNCHANGED <<ticks, config, firings, timers, listening>>

RejoinSpec == Init /\ [][RejoinNext]_vars

\* Runs of one connection at the edge of the world: a ship that joins at
\* the right margin (10900, 1000) and sails on reaches the edge, where wood
\* lies at (10980, 1000).
EdgeSpec ==
    InitWith(RockLayouts, {[n \in 1..initialWoodCount |-> Pos(10980, 1000)]})
    /\ [][StepWith({1}, {[moveForward |-> TRUE]}, JoinData,
                   {<<[attempts |-> [n \in 1..10 |-> Pos(10900, 1000)],
                       fallback |-> Pos(5500, 5500), offset |-> Pos(0, 0)]>>},
                   MaxMessages, MaxTicks)]_vars

---------------------------------------------------------------------------
(* World: the spawn timers and the admin configuration *)

\* World.getWoodCount
getWoodCount(w) ==
    Cardinality({i \in 1..Len(w.resources) : w.resources[i].resourceType = "wood"})

\* Mutant of spawnResource: the wood cap is not looked at.
spawnResource_NoCap(w, type, position, cfg) ==
    IF \E i \in 1..Len(w.players) :
          DistLess(distanceSq(position, w.players[i].position), 20 + w.players[i].size)
    THEN w
    ELSE IF \E i \in 1..Len(w.rocks) :
               DistLess(distanceSq(position, w.rocks[i].position), 20 + w.rocks[i].size)
         THEN w
         ELSE [w EXCEPT !.resources = Append(@, Resource(w.nextId, position, type, 1)),
                        !.nextId = @ + 1,
                        !.spawns = Append(@, [type |-> type, count |-> getWoodCount(w),
                                               cap |-> cfg.maxWoodCount])]

\* World.spawnResource; position is the value getRandomPosition yields.
\* w.spawns logs each resource added: the wood count it found and the cap.
spawnResource(w, type, position, cfg) ==
    IF type = "wood" /\ getWoodCount(w) >= cfg.maxWoodCount THEN w
    ELSE IF \E i \in 1..Len(w.players) :
               DistLess(distanceSq(position, w.players[i].position), 20 + w.players[i].size)
         THEN w
         ELSE IF \E i \in 1..Len(w.rocks) :
                    DistLess(distanceSq(position, w.rocks[i].position), 20 + w.rocks[i].size)
              THEN w
              ELSE [w EXCEPT !.resources = Append(@, Resource(w.nextId, position, type, 1)),
                             !.nextId = @ + 1,
                             !.spawns = Append(@, [type |-> type, count |-> getWoodCount(w),
                                                    cap |-> cfg.maxWoodCount])]

\* The loop of the wood timer's callback over woodSpawnQuantity.
RECURSIVE WoodSpawnLoop(_, _, _, _)
WoodSpawnLoop(w, cfg, draws, i) ==
    IF ~(i < cfg.woodSpawnQuantity) THEN w
    ELSE WoodSpawnLoop(spawnResource(w, "wood", DrawAt(draws, i), cfg), cfg, draws, i + 1)

\* Mutant of woodSpawnerFires: the callback spawns the chests as well.
woodSpawnerFires_Chests(w, cfg, draws) ==
    IF Len(w.players) = 0 THEN w
    ELSE LET w1 == WoodSpawnLoop(w, cfg, draws, 0)
         IN  IF cfg.chestSpawnQuantity > 0
             THEN spawnResource(w1, "chest", DrawAt(draws, 0), cfg)
             ELSE w1

\* The callback of the wood timer of World.startResourceSpawning.
woodSpawnerFires(w, cfg, draws) ==
    IF Len(w.players) > 0 THEN WoodSpawnLoop(w, cfg, draws, 0) ELSE w

\* The loop of the rock timer's callback over rockSpawnQuantity; a draw is
\* the position and the size Math.random yields. w.spawns logs each rock
\* added: the rock count it found and the cap.
RECURSIVE RockSpawnLoop(_, _, _, _)
RockSpawnLoop(w, cfg, draws, i) ==
    IF ~(i < cfg.rockSpawnQuantity) THEN w
    ELSE LET draw == DrawAt(draws, i)
         IN  IF Len(w.rocks) < cfg.maxRockCount /\ isPositionSafe(w, draw.position, 100)
             THEN RockSpawnLoop(
                    [w EXCEPT !.rocks = Append(@, Rock(w.nextId, draw.position, draw.size,
                                                       draw.size \div 10)),
                              !.nextId = @ + 1,
                              !.spawns = Append(@, [type |-> "rock", count |-> Len(w.rocks),
                                                     cap |-> cfg.maxRockCount])],
                    cfg, draws, i + 1)
             ELSE RockSpawnLoop(w, cfg, draws, i + 1)

\* The callback of the rock timer of World.startResourceSpawning.
rockSpawnerFires(w, cfg, draws) ==
    IF Len(w.rocks) < cfg.maxRockCount /\ Len(w.players) > 0
    THEN RockSpawnLoop(w, cfg, draws, 0)
    ELSE w

\* World.getGameConfiguration
getGameConfiguration(w, cfg) ==
    [initialRockCount |-> cfg.initialRockCount,
     currentRockCount |-> Len(w.rocks), maxRockCount |-> cfg.maxRockCount,
     woodSpawnQuantity |-> cfg.woodSpawnQuantity,
     chestSpawnQuantity |-> cfg.chestSpawnQuantity,
     rockSpawnQuantity |-> cfg.rockSpawnQuantity,
     maxWoodCount |-> cfg.maxWoodCount, currentWoodCount |-> getWoodCount(w),
     resourceCount |-> Len(w.resources), playerCount |-> Len(w.players)]

\* Positions getRandomPosition yields for the wood of one firing: open
\* water, or first the place of a ship that has just joined.
WoodSpawnDraws == {<<Pos(2000, 2000)>>, <<SpawnA, Pos(2000, 2000)>>}

\* Positions and sizes drawn for the rocks of one firing.
RockSpawnDraws ==
    LET RockNorth == [position |-> Pos(2000, 3000), size |-> 30]
        RockSouth == [position |-> Pos(2000, 3400), size |-> 45]
    IN  {<<RockNorth, RockSouth>>, <<RockSouth, RockNorth>>}

\* What a spawn timer's callback finds: the counts and the configuration.
SpawnerFinds ==
    [players |-> Len(players), woodCount |-> getWoodCount(Now),
     rockCount |-> Len(rocks), config |-> config]

\* The wood timer fires.
WoodSpawner(draws) ==
    /\ firings < SpawnFirings
    /\ firings' = firings + 1
    /\ LET w == woodSpawnerFires(Now, config, draws)
       IN  /\ Commit(w)
           /\ obs' = Observe("spawnWood", 0, Len(players) > 0, SpawnerFinds, w)
    /\ UNCHANGED <<gsPlayers, sockets, usedSockets, sinceFire, departed, config>>

\* The rock timer fires.
RockSpawner(draws) ==
    /\ firings < SpawnFirings
    /\ firings' = firings + 1
    /\ LET w == rockSpawnerFires(Now, config, draws)
       IN  /\ Commit(w)
           /\ obs' = Observe("spawnRock", 0, Len(players) > 0, SpawnerFinds, w)
    /\ UNCHANGED <<gsPlayers, sockets, usedSockets, sinceFire, departed, config>>

\* socket.on('admin:config:spawn_rates'): World.setResourceSpawnRates, then
\* the configuration is sent back.
AdminSpawnRates(s, data) ==
    /\ s \in sockets
    /\ config' = [config EXCEPT !.woodSpawnQuantity = data.wood,
                                !.chestSpawnQuantity = data.chest,
                                !.rockSpawnQuantity = data.rock]
    /\ LET w == Emit(Now, {s}, "admin:config:update", getGameConfiguration(Now, config'))
       IN  /\ Commit(w)
           /\ obs' = Observe("adminSpawnRates", s, TRUE, data, w)
    /\ UNCHANGED <<gsPlayers, sockets, usedSockets, sinceFire, departed, firings>>

\* socket.on('admin:config:rocks'): World.setRockConfiguration, then the
\* configuration is sent back.
AdminRocks(s, data) ==
    /\ s \in sockets
    /\ config' = [config EXCEPT !.initialRockCount = data.initial,
                                !.maxRockCount = data.max]
    /\ LET w == Emit(Now, {s}, "admin:config:update", getGameConfiguration(Now, config'))
       IN  /\ Commit(w)
           /\ obs' = Observe("adminRocks", s, TRUE, data, w)
    /\ UNCHANGED <<gsPlayers, sockets, usedSockets, sinceFire, departed, firings>>

\* World.respawnRocks: rocks.clear(), then generateInitialRocks with the
\* configured initial count; layout holds the positions and sizes drawn.
respawnRocks(w, cfg, layout) ==
    LET fresh == generateInitialRocks(SubSeq(layout, 1, cfg.initialRockCount), w.nextId)
    IN  [w EXCEPT !.rocks = fresh, !.nextId = @ + Len(fresh)]

\* socket.on('admin:action:respawn_rocks'): World.respawnRocks, then the
\* configuration is sent back.
AdminRespawn(s, layout) ==
    /\ s \in sockets
    /\ LET w1 == respawnRocks(Now, config, layout)
           w == Emit(w1, {s}, "admin:config:update", getGameConfiguration(w1, config))
       IN  /\ Commit(w)
           /\ obs' = Observe("adminRespawn", s, TRUE, [rocks |-> rocks, config |-> config], w)
    /\ UNCHANGED <<gsPlayers, sockets, usedSockets, sinceFire, departed, firings, config>>

\* The spawn timers' callbacks, each run by a live timer of its kind.
SpawnCallbacks ==
    \/ \E draws \in WoodSpawnDraws :
          TimerLive("wood") /\ WoodSpawner(draws) /\ UNCHANGED <<msgs, ticks, timers, listening>>
    \/ \E draws \in RockSpawnDraws :
          TimerLive("rock") /\ RockSpawner(draws) /\ UNCHANGED <<msgs, ticks, timers, listening>>

\* Runs of a single connection in which the spawn timers fire and the
\* admin:config:spawn_rates and admin:config:rocks messages change the
\* spawn quantities and the rock cap.
SpawnNext ==
    \/ Step({1}, {[moveForward |-> TRUE]}, SpawnMessages, SpawnTicks)
    \/ SpawnCallbacks
    \/ \E s \in {1},
          data \in {[wood |-> 3, chest |-> 0, rock |-> 2],
                    [wood |-> 0, chest |-> 0, rock |-> 0]} :
          AdminSpawnRates(s, data) /\ Received(SpawnMessages)
              /\ UNCHANGED <<ticks, timers, listening>>
    \/ \E s \in {1}, data \in {[initial |-> 2, max |-> 2], [initial |-> 2, max |-> 4]} :
          AdminRocks(s, data) /\ Received(SpawnMessages)
              /\ UNCHANGED <<ticks, timers, listening>>

SpawnSpec == Init /\ [][SpawnNext]_vars

\* The rocks drawn for one respawn, as many as the largest initial count
\* set: the first next to the spawn place or on it, the others far off.
RespawnLayouts ==
    {[n \in 1..(maxRockCount + 1) |-> IF n = 1 THEN first ELSE RockFar] :
        first \in {RockNear(30), [position |-> Pos(1000, 1010), size |-> 30]}}

\* Runs of a single connection in which admin:action:respawn_rocks and
\* admin:config:rocks arrive between the ticks.
RespawnNext ==
    \/ Step({1}, {[moveForward |-> TRUE]}, RespawnMessages, RespawnTicks)
    \/ \E s \in {1}, layout \in RespawnLayouts :
          AdminRespawn(s, layout) /\ Received(RespawnMessages)
              /\ UNCHANGED <<ticks, timers, listening>>
    \/ \E s \in {1},
          data \in {[initial |-> 1, max |-> maxRockCount],
                    [initial |-> maxRockCount + 1, max |-> maxRockCount]} :
          AdminRocks(s, data) /\ Received(RespawnMessages)
              /\ UNCHANGED <<ticks, timers, listening>>

RespawnSpec == Init /\ [][RespawnNext]_vars

---------------------------------------------------------------------------
(* Starting, stopping and shutting down *)

\* admin:config:spawn_intervals payloads.
IntervalData == {[wood |-> 1000, chest |-> 20000, rock |-> 2000],
                 [wood |-> 5000, chest |-> 20000, rock |-> 30000]}

\* What a call that only concerns the timers leaves of the world.
WorldUntouched(kind, who, before) ==
    /\ Commit(Now)
    /\ obs' = Observe(kind, who, TRUE, before, Now)
    /\ UNCHANGED <<gsPlayers, sockets, usedSockets, sinceFire, departed, config, firings,
                   msgs, ticks>>

\* gameServer.start()
Start ==
    /\ timers.nextTimer + 2 <= MaxTimers
    /\ timers' = start(timers)
    /\ WorldUntouched("start", 0, timers)
    /\ UNCHANGED listening

\* gameServer.stop()
Stop ==
    /\ timers' = stop(timers)
    /\ WorldUntouched("stop", 0, timers)
    /\ UNCHANGED listening

\* socket.on('admin:config:spawn_intervals'): World.setResourceSpawnIntervals,
\* then the configuration is sent back.
AdminSpawnIntervals(s, data) ==
    /\ s \in sockets
    /\ timers.nextTimer + 1 <= MaxTimers
    /\ timers' = setResourceSpawnIntervals(timers, data.wood, data.chest, data.rock)
    /\ LET w == Emit(Now, {s}, "admin:config:update", getGameConfiguration(Now, config))
       IN  /\ Commit(w)
           /\ obs' = Observe("adminSpawnIntervals", s, TRUE, [data |-> data, timers |-> timers], w)
    /\ UNCHANGED <<gsPlayers, sockets, usedSockets, sinceFire, departed, config, firings,
                   listening>>

\* process.on('SIGINT'): gameServer.stop(), then server.close(). The timers
\* that are live when server.close is called are recorded.
Shutdown ==
    /\ listening
    /\ LET stopped == stop(timers)
       IN  /\ timers' = stopped
           /\ listening' = FALSE
           /\ WorldUntouched("shutdown", 0, [timers |-> timers, liveAtClose |-> stopped.live])

\* Runs in which the server is started, stopped and started again and the
\* spawn intervals are changed, with one connection.
TimerNext ==
    \/ Step({1}, {[moveForward |-> TRUE]}, TimerMessages, TimerTicks)
    \/ SpawnCallbacks
    \/ Start
    \/ Stop
    \/ \E s \in {1}, data \in IntervalData :
          AdminSpawnIntervals(s, data) /\ Received(TimerMessages) /\ UNCHANGED ticks

TimerSpec == Init /\ [][TimerNext]_vars

\* Runs of the process: started once, stopped by SIGINT only.
ShutdownNext ==
    \/ Step({1}, {[moveForward |-> TRUE]}, TimerMessages, TimerTicks)
    \/ SpawnCallbacks
    \/ Shutdown
    \/ \E s \in {1}, data \in IntervalData :
          AdminSpawnIntervals(s, data) /\ Received(TimerMessages) /\ UNCHANGED ticks

ShutdownSpec == Init /\ [][ShutdownNext]_vars

\* Runs of a single connection in which the spawn timers fire after
\* admin:config:spawn_rates and admin:config:spawn_intervals have set a
\* chest quantity and a chest interval.
ChestRateNext ==
    \/ Step({1}, {[moveForward |-> TRUE]}, SpawnMessages, SpawnTicks)
    \/ SpawnCallbacks
    \/ \E s \in {1}, data \in {[wood |-> 1, chest |-> 3, rock |-> 1]} :
          AdminSpawnRates(s, data) /\ Received(SpawnMessages)
              /\ UNCHANGED <<ticks, timers, listening>>
    \/ \E s \in {1}, data \in {[wood |-> 5000, chest |-> 1000, rock |-> 30000]} :
          AdminSpawnIntervals(s, data) /\ Received(SpawnMessages) /\ UNCHANGED ticks

ChestRateSpec == Init /\ [][ChestRateNext]_vars

---------------------------------------------------------------------------
(* Properties *)

C2_SizeFormula ==
    \A p \in Range(players) : p.size = Min(Max(20 + 2 * p.hp, 20), 500)

\* C6: in every tick, a ship whose position after its movement step
\* collides with a rock or with another ship ends the collision checks at
\* the position it had when the tick started.
C6_NonPenetration ==
    \A m \in Range(obs.moves) : (m.overlapsRock \/ m.overlapsShip) => m.endPos = m.prevPos

\* A ship moved onto a rock or another ship in the last tick.
C6_Witness ==
    \E m \in Range(obs.moves) :
        (m.overlapsRock \/ m.overlapsShip) /\ m.moved # m.prevPos

\* C7: no projectile ever reduces the hp of, or kills, the ship whose id is
\* its ownerId.
C7_OwnerImmunity ==
    /\ \A h \in Range(obs.hits) : h.kind = "ship" => h.target # h.ownerId
    /\ \A d \in Range(obs.deaths) : d.killer # d.id

\* After a tick a projectile lies inside the collision circle of its owner.
C7_Witness ==
    /\ obs.kind = "tick"
    /\ \E q \in Range(projectiles), p \in Range(players) :
          p.id = q.ownerId /\ collidesWith(q, p)

\* Delta entries: a removal marker for id, and any entry for id.
IsRemoval(e, id) == e.id = id /\ "removed" \in DOMAIN e /\ e.removed = TRUE
RemovalCount(entities, id) ==
    Cardinality({k \in 1..Len(entities) : IsRemoval(entities[k], id)})
EntryCount(entities, id) ==
    Cardinality({k \in 1..Len(entities) : entities[k].id = id})

\* The references of a list that are missing from another.
Missing(previous, current) == Range(previous) \ Range(current)

\* C3 as stated: for every player and every pair of consecutive visible
\* snapshots, each ship, resource or rock in the old snapshot and not in the
\* new one yields exactly one {id, removed: true} entry in the delta.
C3_AllRemovalsListed ==
    \A d \in Range(obs.deltas) :
        \A id \in Missing(d.previous.ships, d.current.ships)
                  \cup Missing(d.previous.resources, d.current.resources)
                  \cup Missing(d.previous.rocks, d.current.rocks) :
            RemovalCount(d.entities, id) = 1

\* C3 amended: each rock in the old snapshot and not in the new one yields
\* exactly one {id, removed: true} entry; a ship or a resource in the old
\* snapshot and not in the new one yields no entry at all.
C3_RockRemovalsListed ==
    \A d \in Range(obs.deltas) :
        /\ \A id \in Missing(d.previous.rocks, d.current.rocks) :
              RemovalCount(d.entities, id) = 1 /\ EntryCount(d.entities, id) = 1
        /\ \A id \in Missing(d.previous.ships, d.current.ships)
                     \cup Missing(d.previous.resources, d.current.resources) :
              EntryCount(d.entities, id) = 0

\* A delta was computed for a player that lost sight of a rock and of a
\* resource.
C3_Witness ==
    \E d \in Range(obs.deltas) :
        /\ Missing(d.previous.rocks, d.current.rocks) # {}
        /\ Missing(d.previous.resources, d.current.resources) # {}

Received_(s, event, data) ==
    Cardinality({k \in 1..Len(outbox) :
        outbox[k].event = event /\ s \in outbox[k].to /\ outbox[k].data = data})

SnapOf(snaps, id) == snaps[FirstIdx({k \in 1..Len(snaps) : snaps[k].id = id})]

\* C5: a rock visible to a player in two consecutive sendUpdates calls is in
\* the second delta as a full snapshot if its hp or position changed between
\* the calls, and is not in the delta if nothing changed.
C5_ChangedRocksSent ==
    \A d \in Range(obs.deltas) :
        \A id \in Range(d.previous.rocks) \cap Range(d.current.rocks) :
            LET old == SnapOf(d.prevRocks, id)
                new == SnapOf(d.curRocks, id)
            IN  IF old # new
                THEN \E k \in 1..Len(d.entities) : d.entities[k] = new
                ELSE EntryCount(d.entities, id) = 0

\* The cannon count the code's rule gives for an hp value.
CannonsFor(hp) == 2 + 2 * (hp \div 5)

\* The ship with the given id, in a tuple (empty when there is none).
ShipOf(ps, id) == SelectSeq(ps, LAMBDA p : p.id = id)

\* C8, within one handler: a ship joins with hp = 1 and 2 cannons; a wood
\* pickup never lowers the cannon count and takes a ship whose count is
\* 2 + 2 * floor(hp / 5) to that value for its new hp; a non-lethal hit does
\* not lower the count; a death resets it to 2.
C8_CannonSteps ==
    /\ obs.kind = "join" => \A p \in Range(ShipOf(players, obs.who)) : p.hp = 1 /\ p.cannons = 2
    /\ \A e \in Range(obs.pickups) :
          e.resourceType = "wood" =>
              /\ e.after.hp = e.before.hp + e.value
              /\ e.after.cannons >= e.before.cannons
              /\ e.before.cannons = CannonsFor(e.before.hp) =>
                    e.after.cannons = CannonsFor(e.after.hp)
    /\ \A h \in Range(obs.hits) :
          (h.kind = "ship" /\ ~h.isDead) => h.cannonsAfter >= h.cannonsBefore
    /\ \A p \in Range(players) : p.cannons >= CannonsFor(p.hp)

\* C8, from state to state: a ship's cannon count is lowered only by a step
\* in which that ship died, and then to 2.
C8_OnlyDeathLowers ==
    \A s \in Sockets :
        (HasId(players, s) /\ HasId(players', s)
            /\ Deref(players', s).cannons < Deref(players, s).cannons)
        => /\ \E d \in Range(obs'.deaths) : d.id = s
           /\ Deref(players', s).cannons = 2

ThresholdCannons(hp) == 2 + 2 * ((hp - 1) \div 5)

\* C9: cannons unlock when hp reaches 6, 11, 16, ...: a ship growing from
\* hp = 1 has 2 cannons up to hp = 5, 4 from hp = 6, 6 from hp = 11 and 8
\* from hp = 16.
C9_Thresholds ==
    \A e \in Range(obs.pickups) :
        (e.resourceType = "wood" /\ e.before.cannons = ThresholdCannons(e.before.hp))
        => e.after.cannons = ThresholdCannons(e.after.hp)

\* C10: an accepted fire request of a ship with c cannons adds exactly c
\* projectiles to the world at once, c / 2 with angle ship.angle + PI/2 and
\* c / 2 with angle ship.angle - PI/2, all owned by the ship.
C10_FireCreatesProjectiles ==
    (obs.kind = "fire" /\ obs.before.ship # <<>>) =>
        LET ship == obs.before.ship[1]
            had == Len(obs.before.projectiles)
            new == SubSeq(projectiles, had + 1, Len(projectiles))
            c == ship.cannons
        IN  (ship.cannons >= 2 /\ ship.cannonCooldown <= 0) =>
                /\ SubSeq(projectiles, 1, had) = obs.before.projectiles
                /\ Len(new) = c
                /\ Cardinality({k \in 1..Len(new) : new[k].angle = ship.angle + 1}) * 2 = c
                /\ Cardinality({k \in 1..Len(new) : new[k].angle = ship.angle - 1}) * 2 = c
                /\ \A k \in 1..Len(new) : new[k].ownerId = ship.id
                /\ Cardinality({new[k].id : k \in 1..Len(new)}) = c
                /\ \A k \in 1..Len(new) : ~HasId(obs.before.projectiles, new[k].id)

\* A ship with 4 cannons has just fired.
C10_Witness ==
    /\ obs.kind = "fire" /\ obs.before.ship # <<>>
    /\ obs.before.ship[1].cannons = 4
    /\ obs.before.ship[1].cannonCooldown <= 0
    /\ Len(projectiles) > Len(obs.before.projectiles)

\* C11, after a fire request: it is accepted only for a joined ship with
\* cooldown 0 and at least 2 cannons; acceptance sets the cooldown to 2000;
\* the ticks since the ship's previous accepted fire sum to at least 2000 ms;
\* a cooldown is always within 0..2000.
C11_FireGate ==
    /\ (obs.kind = "fire" /\ obs.accepted) =>
          /\ obs.before.ship # <<>>
          /\ obs.before.ship[1].cannonCooldown = 0
          /\ obs.before.ship[1].cannons >= 2
          /\ Deref(players, obs.who).cannonCooldown = 2000
          /\ obs.before.sinceFire = -1 \/ obs.before.sinceFire >= 2000
    /\ \A p \in Range(players) : p.cannonCooldown >= 0 /\ p.cannonCooldown <= 2000

\* C11, from state to state: a rejected fire request changes nothing, and a
\* tick lowers every cooldown by dt, not below 0.
C11_RejectAndDecay ==
    /\ (obs'.kind = "fire" /\ ~obs'.accepted) =>
          UNCHANGED <<players, gsPlayers, sockets, resources, rocks, projectiles, nextId>>
    /\ ticks' = ticks + 1 =>
          \A s \in Sockets :
              HasId(players, s) =>
                  /\ HasId(players', s)
                  /\ Deref(players', s).cannonCooldown =
                        Max(Deref(players, s).cannonCooldown - deltaTime, 0)

\* C11: fire requests are accepted only at cooldown 0 with at least 2
\* cannons, acceptance starts a 2000 ms cooldown that each tick lowers by dt
\* and never below 0, two accepted fires of a ship are at least 2000 ms of
\* ticks apart, and a rejected request changes no state.
C11_Cooldown == [](C11_FireGate) /\ [][C11_RejectAndDecay]_vars

\* A ship's second fire has just been accepted, after an earlier request was
\* rejected during the cooldown.
C11_Witness ==
    /\ obs.kind = "fire" /\ obs.accepted
    /\ obs.before.sinceFire >= 2000
    /\ msgs = 4

\* The projectile hits of the last handler on the rock with the given id.
RockHits(log, id) == {k \in 1..Len(log) : log[k].kind = "rock" /\ log[k].target = id}

\* C12, at the end of a handler: every rock in the collection has hp >= 1;
\* a hit takes 1 hp and destroys the rock exactly when its hp reaches 0,
\* that is when the damage taken reaches the hp it was created with; a rock
\* destroyed by a hit is gone, a rock every hit left with hp > 0 is there.
C12_RockHits ==
    /\ \A r \in Range(rocks) : r.hp >= 1 /\ r.hp <= r.maxHp
    /\ \A h \in Range(obs.hits) :
          h.kind = "rock" =>
              /\ h.hpAfter = h.hpBefore - 1
              /\ h.isDead <=> (h.maxHp - h.hpAfter >= h.maxHp)
              /\ HasId(rocks, h.target) <=>
                    \A k \in RockHits(obs.hits, h.target) : ~obs.hits[k].isDead

\* C12, from state to state: a rock stays in the collection, losing one hp
\* per hit, unless a hit of that step brought its hp to 0.
C12_RockSteps ==
    \A k \in 1..Len(rocks) :
        LET r == rocks[k]
            n == Cardinality(RockHits(obs'.hits, r.id))
        IN  IF HasId(rocks', r.id)
            THEN Deref(rocks', r.id) =
                     [r EXCEPT !.hp = IF ticks' = ticks + 1 THEN r.hp - n ELSE r.hp]
            ELSE /\ ticks' = ticks + 1
                 /\ n = r.hp
                 /\ \E j \in RockHits(obs'.hits, r.id) : obs'.hits[j].hpAfter = 0

\* C12: a rock with hp h stays in the rock collection through hits whose
\* damage adds up to less than h and is removed in the tick of the hit that
\* brings the damage to h; no rock with hp <= 0 is in the collection at the
\* end of a tick.
C12_RockRemoval == [](C12_RockHits) /\ [][C12_RockSteps]_vars

\* A rock created with hp 3 has just been destroyed by its third hit, in a
\* later tick than its first hit.
C12_Witness ==
    \E h \in Range(obs.hits) :
        /\ h.kind = "rock" /\ h.maxHp = 3 /\ h.isDead /\ h.hpBefore = 1
        /\ Cardinality(RockHits(obs.hits, h.target)) = 1

\* The pickups of the last handler made by the player with the given id.
PickupsOf(log, id) == {k \in 1..Len(log) : log[k].player = id}

LastDeath(log, id) ==
    log[CHOOSE k \in 1..Len(log) :
            log[k].id = id /\ \A j \in (k + 1)..Len(log) : log[j].id # id]

\* The stats a death resets a ship to.
BaseStats == [hp |-> 1, size |-> 22, cannons |-> 2]
StatsOf(p) == [hp |-> p.hp, size |-> p.size, cannons |-> p.cannons]

\* C14 as stated: at the end of the tick in which a ship took lethal damage
\* its player is still in World.players and GameServer.players, with hp 1,
\* 2 cannons, the size for hp 1, the position of a new spawn and the controls
\* it had.
C14_ResetAtEndOfTick ==
    obs.kind = "tick" =>
        \A d \in Range(obs.deaths) :
            /\ HasId(players, d.id)
            /\ d.id \in Range(gsPlayers)
            /\ LET p == Deref(players, d.id)
                   last == LastDeath(obs.deaths, d.id)
               IN  /\ StatsOf(p) = BaseStats
                   /\ p.position = last.position
                   /\ p.controls = d.controls

\* C14 amended, at the end of the tick of a death: the player is still in
\* World.players and GameServer.players, handlePlayerDeath left it with hp 1,
\* 2 cannons and size 22 at the position of a new spawn, with the controls
\* it had; the pickup step of the same tick then ran on the respawned ship,
\* so it ends the tick with those stats only if it picked up nothing, and
\* otherwise with the stats its pickups at the spawn position gave it.
C14_ResetThenPickup ==
    obs.kind = "tick" =>
        \A d \in Range(obs.deaths) :
            /\ HasId(players, d.id)
            /\ d.id \in Range(gsPlayers)
            /\ d.reset = BaseStats
            /\ d.position \in SpawnCandidates \cup FallbackPositions
            /\ LET p == Deref(players, d.id)
                   last == LastDeath(obs.deaths, d.id)
                   got == PickupsOf(obs.pickups, d.id)
               IN  /\ p.position = last.position
                   /\ p.controls = d.controls
                   /\ IF got = {} THEN StatsOf(p) = BaseStats
                      ELSE /\ obs.pickups[FirstIdx(got)].before = BaseStats
                           /\ \E k \in got : obs.pickups[k].after = StatsOf(p)
                           /\ p.hp = 1 + Cardinality(got)

\* C14 amended, from state to state: a tick moves every ship, a respawned
\* one included, from where it is according to its stored controls.
C14_TickMovesByControls ==
    ticks' = ticks + 1 =>
        \A i \in 1..Len(players) :
            \E m \in Range(obs'.moves) :
                /\ m.id = players[i].id
                /\ m.prevPos = players[i].position
                /\ m.moved = PlayerUpdate(players[i], deltaTime).position

\* C14 amended: death is a reset, not a removal; the reset values hold when
\* handlePlayerDeath returns, the same tick's pickup step may raise them,
\* and the next tick moves the ship according to its unchanged controls.
C14_DeathReset == [](C14_ResetThenPickup) /\ [][C14_TickMovesByControls]_vars

\* The tick after a death: the respawned ship, which picked up wood at its
\* spawn position, has moved according to the controls it had when it died.
C14_Witness ==
    /\ obs.kind = "tick"
    /\ \E id \in obs.before.respawned, m \in Range(obs.moves) :
          /\ m.id = id /\ m.endPos # m.prevPos
          /\ HasId(players, id) /\ Deref(players, id).hp = 2

\* The ids of the ship snapshots (removal markers are not snapshots) that a
\* message carries.
SnapshotIds(entries) ==
    {entries[k].id : k \in {j \in 1..Len(entries) :
        "type" \in DOMAIN entries[j] /\ entries[j].type = "ship"}}
ShipIdsIn(msg) ==
    CASE msg.event = "ships:batch_update" -> SnapshotIds(msg.data)
      [] msg.event = "game:update" -> {msg.data.player.id} \cup SnapshotIds(msg.data.entities)
      [] msg.event = "game:state" -> {msg.data.player.id} \cup SnapshotIds(msg.data.ships)
      [] msg.event = "ship:update" -> SnapshotIds(<<msg.data>>)
      [] OTHER -> {}

\* C15: once a player P has disconnected, P is in neither GameServer.players
\* nor World.players, no remaining player's lastKnownEntities.ships holds P,
\* and no message sent afterwards (ships:batch_update, game:update,
\* game:state, ship:update reply) carries a ship snapshot with id P.
C15_NoGhostShip ==
    \A P \in usedSockets \ sockets :
        /\ ~HasId(players, P)
        /\ P \notin Range(gsPlayers)
        /\ \A p \in Range(players) : P \notin Range(p.lastKnownEntities.ships)
        /\ \A msg \in Range(outbox) : P \notin ShipIdsIn(msg)

\* The tick after a disconnect: the remaining ships are broadcast and a
\* delta is computed for a player that had the departed ship in its last
\* snapshot.
C15_Witness ==
    /\ obs.kind = "tick"
    /\ \E P \in obs.before.departed, d \in Range(obs.deltas) :
          d.id \in P.seenBy /\ P.id \notin sockets
    /\ \E msg \in Range(outbox) : msg.event = "ships:batch_update" /\ ShipIdsIn(msg) # {}

\* A step that handles a player:controls, player:fire or request:ships
\* message of a connection that is not a joined player.
UnknownSender ==
    /\ msgs' = msgs + 1
    /\ obs'.kind \in {"controls", "fire", "ships"}
    /\ obs'.who \notin Range(gsPlayers)

\* C16: a player:controls, player:fire or request:ships message of a
\* connection that is not a joined player is ignored: nothing is emitted
\* and players (with their cooldowns and controls), projectiles and the
\* rest of the world are unchanged.
C16_UnknownSenderIgnored ==
    [][UnknownSender =>
          /\ outbox' = <<>>
          /\ obs'.accepted = FALSE
          /\ UNCHANGED <<players, gsPlayers, sockets, resources, rocks, projectiles,
                         nextId>>]_vars

\* A connection that never joined has just sent player:fire while a joined
\* ship that could fire and an open connection to notify exist.
C16_Witness ==
    /\ obs.kind = "fire"
    /\ obs.who \in sockets /\ obs.who \notin Range(gsPlayers)
    /\ \E p \in Range(players) : p.cannonCooldown = 0 /\ p.id \in sockets

\* The three fields of the stored intent.
ControlFields == {"moveForward", "rotateLeft", "rotateRight"}

\* C17, after a player:controls message of a joined player: each stored
\* control is the payload's value if the payload has the field and false if
\* not, whatever was stored before.
C17_Overwrite ==
    (obs.kind = "controls" /\ obs.accepted) =>
        LET stored == Deref(players, obs.who).controls
            payload == obs.before.payload
        IN  /\ DOMAIN stored = ControlFields
            /\ \A f \in ControlFields :
                  stored[f] = IF f \in DOMAIN payload THEN payload[f] ELSE FALSE

\* C17, from state to state: only a player:controls message of a player
\* changes its stored intent, and a tick turns and moves each ship by the
\* intent stored when the tick starts (150 px per tick, clamped to the world).
C17_LatestIntentMoves ==
    /\ \A s \in Sockets :
          (HasId(players, s) /\ HasId(players', s)
              /\ ~(obs'.kind = "controls" /\ obs'.who = s /\ msgs' = msgs + 1)
              /\ ~(obs'.kind = "join" /\ obs'.who = s /\ msgs' = msgs + 1))
          => Deref(players', s).controls = Deref(players, s).controls
    /\ ticks' = ticks + 1 =>
          \A i \in 1..Len(players) :
              LET p == players[i]
                  c == p.controls
                  a == (p.angle + (IF c.rotateRight THEN 1 ELSE 0)
                                - (IF c.rotateLeft THEN 1 ELSE 0)) % 4
                  dist == (speed * deltaTime) \div 1000
                  x == IF c.moveForward THEN p.position.x + Cos(a) * dist ELSE p.position.x
                  y == IF c.moveForward THEN p.position.y + Sin(a) * dist ELSE p.position.y
                  target == Pos(Max(p.size, Min(x, 11000 - p.size)),
                                Max(p.size, Min(y, 11000 - p.size)))
              IN  \E m \in Range(obs'.moves) :
                      m.id = p.id /\ m.prevPos = p.position /\ m.moved = target

\* C17: a player:controls message overwrites the stored intent wholesale,
\* missing fields becoming false, and the next tick moves the ship by the
\* latest message only.
C17_ControlsOverwrite == [](C17_Overwrite) /\ [][C17_LatestIntentMoves]_vars

\* An empty payload has just replaced a stored intent that had a field set.
C17_Witness ==
    /\ obs.kind = "controls" /\ obs.accepted
    /\ obs.before.payload = EmptyPayload
    /\ obs.before.controls # <<NoControls>>
    /\ Deref(players, obs.who).controls = NoControls

\* Whether the centre of entity e is nearer to the centre of a ship of the
\* given size at the given position than 500 + 3 * size + e.size.
Sees(position, size, e) ==
    LET dx == e.position.x - position.x
        dy == e.position.y - position.y
        reach == 500 + 3 * size + e.size
    IN  dx * dx + dy * dy < reach * reach

\* The ids of the entities of a collection that a ship of the given size at
\* the given position sees.
SeenIds(coll, position, size) ==
    {coll[k].id : k \in {j \in 1..Len(coll) : Sees(position, size, coll[j])}}

\* Ship sizes above a given one.
LargerSizes(size) == {n \in {22, 24, 30, 60, 500} : n > size}

\* C18: the snapshot World.getVisibleEntities computes for a player in
\* sendUpdates holds exactly the other ships, the resources, the rocks and
\* the projectiles whose centre distance to the player is strictly less than
\* 500 + 3 * player.size + entity.size, each once, and a larger ship at the
\* same position would see all of them.
C18_VisibleExactly ==
    obs.kind = "tick" =>
        \A d \in Range(obs.deltas) :
            LET p == Deref(players, d.id)
                others == SelectSeq(players, LAMBDA o : o.id # p.id)
            IN  /\ Range(d.current.ships) = SeenIds(others, p.position, p.size)
                /\ Range(d.current.resources) = SeenIds(resources, p.position, p.size)
                /\ Range(d.current.rocks) = SeenIds(rocks, p.position, p.size)
                /\ Range(d.current.projectiles) = SeenIds(projectiles, p.position, p.size)
                /\ Len(d.current.ships) = Cardinality(Range(d.current.ships))
                /\ Len(d.current.resources) = Cardinality(Range(d.current.resources))
                /\ Len(d.current.rocks) = Cardinality(Range(d.current.rocks))
                /\ Len(d.current.projectiles) = Cardinality(Range(d.current.projectiles))
                /\ \A size \in LargerSizes(p.size) :
                      LET big == getVisibleEntities(Now, [p EXCEPT !.size = size])
                      IN  /\ Range(d.current.ships) \subseteq Range(big.ships)
                          /\ Range(d.current.resources) \subseteq Range(big.resources)
                          /\ Range(d.current.rocks) \subseteq Range(big.rocks)
                          /\ Range(d.current.projectiles) \subseteq Range(big.projectiles)

\* A snapshot was computed for a ship of size 20 at SpawnA: the rock at
\* distance exactly 605 and the wood at distance exactly 575 are not in it,
\* the wood at distance 574 is, and a ship of size 22 there would see the
\* rock as well.
C18_Witness ==
    /\ obs.kind = "tick"
    /\ \E d \in Range(obs.deltas) :
          LET p == Deref(players, d.id)
          IN  /\ p.position = SpawnA /\ p.size = 20
              /\ \E r \in Range(rocks) :
                    /\ r.position = RockAtEdge.position
                    /\ r.id \notin Range(d.current.rocks)
                    /\ r.id \in Range(getVisibleEntities(Now, [p EXCEPT !.size = 22]).rocks)
              /\ \E e \in Range(resources) :
                    e.position = WoodAtEdge /\ e.id \notin Range(d.current.resources)
              /\ \E e \in Range(resources) :
                    e.position = WoodInsideEdge /\ e.id \in Range(d.current.resources)

\* Whether the centre of entity e is nearer to the given position than
\* 2500 + e.size.
InInitialRadius(position, e) ==
    LET dx == e.position.x - position.x
        dy == e.position.y - position.y
    IN  dx * dx + dy * dy < (2500 + e.size) * (2500 + e.size)

\* The game:state messages of the last handler.
GameStates == SelectSeq(outbox, LAMBDA msg : msg.event = "game:state")

\* C19: the game:state reply to player:join goes to the new player and
\* holds every other ship and every resource in the world, whatever the
\* distance, and exactly the rocks and projectiles whose centre distance to
\* the new player is less than 2500 + entity.size.
C19_InitialState ==
    obs.kind = "join" =>
        /\ Len(GameStates) = 1
        /\ LET me == Deref(players, obs.who)
               others == SelectSeq(players, LAMBDA o : o.id # me.id)
               nearRocks == SelectSeq(rocks, LAMBDA e : InInitialRadius(me.position, e))
               nearShots == SelectSeq(projectiles, LAMBDA e : InInitialRadius(me.position, e))
               reply == GameStates[1]
           IN  /\ reply.to = {obs.who}
               /\ reply.data.player = PlayerSerialize(me)
               /\ reply.data.ships = [k \in 1..Len(others) |-> PlayerSerialize(others[k])]
               /\ reply.data.resources =
                     [k \in 1..Len(resources) |-> ResourceSerialize(resources[k])]
               /\ reply.data.rocks = [k \in 1..Len(nearRocks) |-> RockSerialize(nearRocks[k])]
               /\ reply.data.projectiles =
                     [k \in 1..Len(nearShots) |-> ProjectileSerialize(nearShots[k])]

\* A player has just joined at the fallback position: the other ship, the
\* wood and a projectile are more than 2500 away, the ship and the wood are
\* in the reply and the projectile is not; of the two rocks the one at
\* distance 2544 is in the reply and the one at distance 2545 is not.
C19_Witness ==
    /\ obs.kind = "join"
    /\ Len(GameStates) = 1
    /\ LET me == Deref(players, obs.who)
           reply == GameStates[1].data
       IN  /\ \E o \in Range(players) :
                 /\ o.id # me.id /\ ~InInitialRadius(me.position, o)
                 /\ \E k \in 1..Len(reply.ships) : reply.ships[k].id = o.id
           /\ \E e \in Range(resources) :
                 /\ ~InInitialRadius(me.position, e)
                 /\ \E k \in 1..Len(reply.resources) : reply.resources[k].id = e.id
           /\ \E q \in Range(projectiles) :
                 /\ ~InInitialRadius(me.position, q)
                 /\ \A k \in 1..Len(reply.projectiles) : reply.projectiles[k].id # q.id
           /\ Len(reply.rocks) = 1
           /\ reply.rocks[1].x = RockInside2500.position.x
           /\ reply.rocks[1].y = RockInside2500.position.y
           /\ Len(rocks) > 1


\* C20: a firing of the wood timer adds no wood when the world has no
\* player and never adds a wood while the wood count is at or above
\* maxWoodCount; a firing of the rock timer never adds a rock while the
\* rock count is at or above maxRockCount; so a firing that finds a count
\* at or below its cap leaves it at or below the cap, whatever the spawn
\* quantities are.
C20_WoodSpawner ==
    obs.kind = "spawnWood" =>
        /\ obs.before.players = 0 => Len(obs.spawns) = 0
        /\ \A k \in 1..Len(obs.spawns) :
              /\ obs.spawns[k].type = "wood"
              /\ obs.spawns[k].count < obs.before.config.maxWoodCount
        /\ getWoodCount(Now) = obs.before.woodCount + Len(obs.spawns)
        /\ obs.before.woodCount >= obs.before.config.maxWoodCount =>
              getWoodCount(Now) = obs.before.woodCount
        /\ obs.before.woodCount <= obs.before.config.maxWoodCount =>
              getWoodCount(Now) <= obs.before.config.maxWoodCount

C20_RockSpawner ==
    obs.kind = "spawnRock" =>
        /\ \A k \in 1..Len(obs.spawns) :
              /\ obs.spawns[k].type = "rock"
              /\ obs.spawns[k].count < obs.before.config.maxRockCount
        /\ Len(rocks) = obs.before.rockCount + Len(obs.spawns)
        /\ obs.before.rockCount >= obs.before.config.maxRockCount =>
              Len(rocks) = obs.before.rockCount
        /\ obs.before.rockCount <= obs.before.config.maxRockCount =>
              Len(rocks) <= obs.before.config.maxRockCount

C20_SpawnerCaps == C20_WoodSpawner /\ C20_RockSpawner

\* A wood firing whose quantity is larger than the room left under the cap
\* has stopped exactly at the cap.
C20_Witness ==
    /\ obs.kind = "spawnWood"
    /\ Len(obs.spawns) > 0
    /\ obs.before.config.woodSpawnQuantity > Len(obs.spawns)
    /\ getWoodCount(Now) = obs.before.config.maxWoodCount


\* C21: after any sequence of start, stop and admin:config:spawn_intervals
\* at most one tick timer, one wood timer and one rock timer are live, and
\* each live timer is the one its handle holds; a change of the intervals
\* while spawning is running replaces the wood and rock timers by new ones
\* with the new periods (the old ones are no longer live, so they never
\* fire again); a start while running creates nothing.
TimerKinds == {"tick", "wood", "rock"}

HandleOf(tm, kind) ==
    IF kind = "tick" THEN tm.tickInterval
    ELSE IF kind = "wood" THEN tm.woodSpawnInterval ELSE tm.rockSpawnInterval

PeriodOf(tm, kind) ==
    IF kind = "tick" THEN 1000 \div tickRate
    ELSE IF kind = "wood" THEN tm.woodSpawnIntervalMs ELSE tm.rockSpawnIntervalMs

SpawningRuns(tm) == tm.woodSpawnInterval # 0 \/ tm.rockSpawnInterval # 0

C21_AtMostOne ==
    /\ \A kind \in TimerKinds : Cardinality({t \in timers.live : t.kind = kind}) <= 1
    /\ \A t \in timers.live :
          /\ HandleOf(timers, t.kind) = t.id
          /\ t.period = PeriodOf(timers, t.kind)

C21_Restart ==
    obs.kind = "adminSpawnIntervals" =>
        LET old == obs.before.timers
            data == obs.before.data
        IN  /\ timers.woodSpawnIntervalMs = data.wood
            /\ timers.rockSpawnIntervalMs = data.rock
            /\ {t \in timers.live : t.kind = "tick"} = {t \in old.live : t.kind = "tick"}
            /\ SpawningRuns(old) =>
                  /\ \A kind \in {"wood", "rock"} : \E t \in timers.live : t.kind = kind
                  /\ \A t \in timers.live :
                        t.kind # "tick" => t.id >= old.nextTimer /\ t \notin old.live
            /\ ~SpawningRuns(old) => timers.live = old.live

C21_StartTwice ==
    obs.kind = "start" /\ obs.before.tickInterval # 0 => timers = obs.before

C21_Timers == C21_AtMostOne /\ C21_Restart /\ C21_StartTwice

\* The intervals were changed while spawning was running: the wood timer
\* of before is gone and the live one has the new period.
C21_Witness ==
    /\ obs.kind = "adminSpawnIntervals"
    /\ SpawningRuns(obs.before.timers)
    /\ obs.before.data.wood # obs.before.timers.woodSpawnIntervalMs
    /\ \E t \in timers.live :
          t.kind = "wood" /\ t.period = obs.before.data.wood /\ t \notin obs.before.timers.live
    /\ \E t \in obs.before.timers.live : t.kind = "wood" /\ t \notin timers.live

\* C22: on shutdown no timer is live when server.close is called, and once
\* the server is stopped no timer is live and no tick and no spawn callback
\* runs, also after an admin:config:spawn_intervals message.
C22_StoppedBeforeClose ==
    /\ obs.kind = "shutdown" => obs.before.liveAtClose = {}
    /\ ~listening => timers.live = {}

C22_NoCallback == ~listening => ticks' = ticks /\ firings' = firings

C22_Shutdown == [](C22_StoppedBeforeClose) /\ [][C22_NoCallback]_vars

\* An admin:config:spawn_intervals message was handled after the shutdown
\* of a server whose timers had fired.
C22_Witness ==
    /\ ~listening
    /\ obs.kind = "adminSpawnIntervals"
    /\ ticks > 0
    /\ firings > 0
    /\ timers.woodSpawnIntervalMs # woodSpawnIntervalMs


\* C23: getRandomSpawnPosition tries at most 10 candidates; what it returns
\* is either a tried candidate that keeps the 100-unit clearance from every
\* rock and every player of the world it was called in and lies in the
\* rectangle inset by the 100-unit margin, or a position within 100 units
\* of the world centre on each axis, returned only when all 10 candidates
\* were unsafe. A joining ship is put at the returned position.
Clear(p, obstacles, safeRadius) ==
    \A o \in obstacles :
        distanceSq(p, o.position) >= (safeRadius + o.size) * (safeRadius + o.size)

InsideMargin(p) ==
    /\ 100 <= p.x /\ p.x <= width - 100
    /\ 100 <= p.y /\ p.y <= height - 100

AroundCentre(p) ==
    /\ width \div 2 - 100 <= p.x /\ p.x <= width \div 2 + 100
    /\ height \div 2 - 100 <= p.y /\ p.y <= height \div 2 + 100

C23_Placed(pl) ==
    /\ Len(pl.tried) <= 10
    /\ \/ /\ Len(pl.tried) > 0
          /\ pl.position = pl.tried[Len(pl.tried)].position
          /\ Clear(pl.position, pl.obstacles, 100)
          /\ InsideMargin(pl.position)
       \/ /\ AroundCentre(pl.position)
          /\ Len(pl.tried) = 10
          /\ \A n \in 1..10 : ~Clear(pl.tried[n].position, pl.obstacles, 100)

C23_SpawnPosition ==
    /\ \A k \in 1..Len(obs.placements) : C23_Placed(obs.placements[k])
    /\ obs.kind = "join" =>
          /\ Len(obs.placements) = 1
          /\ Deref(players, obs.who).position = obs.placements[1].position

\* A join whose ship was placed on the tenth candidate, the nine before
\* being unsafe, with another ship in the world.
C23_Witness ==
    /\ obs.kind = "join"
    /\ Len(players) = 2
    /\ Len(obs.placements[1].tried) = 10
    /\ ~obs.placements[1].fallback
    /\ \A n \in 1..9 : ~obs.placements[1].tried[n].safe

\* C24 as stated: isPositionSafe(p, r) is true exactly when the distance
\* from p to every rock and every player strictly exceeds r + size.
C24_StrictlyExceeds ==
    \A k \in 1..Len(obs.placements) :
        \A n \in 1..Len(obs.placements[k].tried) :
            LET t == obs.placements[k].tried[n]
            IN  t.safe <=>
                   \A o \in obs.placements[k].obstacles :
                       distanceSq(t.position, o.position) > (100 + o.size) * (100 + o.size)

\* C24 as amended: isPositionSafe(p, r) is true exactly when the distance
\* from p to every rock and every player is at least r + size; a position
\* at distance exactly r + size is safe.
C24_AtLeast ==
    \A k \in 1..Len(obs.placements) :
        \A n \in 1..Len(obs.placements[k].tried) :
            LET t == obs.placements[k].tried[n]
            IN  t.safe <=> Clear(t.position, obs.placements[k].obstacles, 100)

\* A candidate at exactly the clearance distance of a rock was tested and
\* accepted.
C24_Witness ==
    \E k \in 1..Len(obs.placements) :
        \E n \in 1..Len(obs.placements[k].tried) :
            LET t == obs.placements[k].tried[n]
            IN  /\ t.safe
                /\ \E o \in obs.placements[k].obstacles :
                      distanceSq(t.position, o.position) = (100 + o.size) * (100 + o.size)


\* C25: for each ship death of a tick exactly one game:killfeed is sent, to
\* every player in the world, and exactly one player:died, to the victim;
\* the message names killer and victim when the projectile's owner is a
\* player in the world and is the "destroyed" fallback otherwise; a
\* disconnect leaves the projectiles in the world, and every projectile hit
\* on a ship takes its damage whether or not the owner is still there.
EventsOf(box, event) == SelectSeq(box, LAMBDA m : m.event = event)

PlayerIds == {players[i].id : i \in 1..Len(players)}

C25_Killfeed ==
    obs.kind = "tick" =>
        LET feed == EventsOf(outbox, "game:killfeed")
            died == EventsOf(outbox, "player:died")
        IN  /\ Len(feed) = Len(obs.deaths)
            /\ Len(died) = Len(obs.deaths)
            /\ \A k \in 1..Len(obs.deaths) :
                  LET death == obs.deaths[k]
                      victim == Deref(players, death.id)
                  IN  /\ feed[k].to = PlayerIds
                      /\ died[k].to = {death.id}
                      /\ death.killer \in PlayerIds =>
                            feed[k].data = <<Deref(players, death.killer).name, "sank",
                                             victim.name>>
                      /\ death.killer \notin PlayerIds =>
                            feed[k].data = <<victim.name, "destroyed">>
            /\ \A h \in 1..Len(obs.hits) :
                  obs.hits[h].kind = "ship" => obs.hits[h].hpAfter = obs.hits[h].hpBefore - 1

C25_ProjectileStays == obs'.kind = "disconnect" => projectiles' = projectiles

C25_Deaths == [](C25_Killfeed) /\ [][C25_ProjectileStays]_vars

\* A ship was sunk by the projectile of a player that had left: the
\* fallback message went to the ship that remained.
C25_Witness ==
    /\ obs.kind = "tick"
    /\ Len(obs.deaths) = 1
    /\ obs.deaths[1].killer \notin PlayerIds
    /\ \E m \in Range(outbox) :
          m.event = "game:killfeed" /\ m.data = <<"Bob", "destroyed">> /\ m.to = PlayerIds


\* C26: in a tick a projectile damages at most one entity and every
\* projectile that has hit a rock or a ship is gone from the projectile
\* collection at the end of the tick; a projectile that is gone never comes
\* back, so it damages at most one entity in its lifetime; a projectile that
\* overlaps a rock and a ship damages the rock only.
C26_OneHitPerTick ==
    obs.kind = "tick" =>
        /\ \A h, g \in 1..Len(obs.hits) :
              obs.hits[h].projectile = obs.hits[g].projectile => h = g
        /\ \A h \in 1..Len(obs.hits) :
              /\ ~HasId(projectiles, obs.hits[h].projectile)
              /\ obs.hits[h].hpAfter = obs.hits[h].hpBefore - 1
              /\ obs.hits[h].kind = "ship" => obs.hits[h].overlaps.rocks = {}
              /\ obs.hits[h].kind = "rock" => obs.hits[h].target \in obs.hits[h].overlaps.rocks

C26_GoneForGood ==
    \A i \in 1..Len(projectiles') :
        HasId(projectiles, projectiles'[i].id) \/ projectiles'[i].id >= nextId

C26_OneHit == [](C26_OneHitPerTick) /\ [][C26_GoneForGood]_vars

\* A projectile that overlapped a rock and a ship has damaged the rock; the
\* ship has its hp and was not sunk.
C26_Witness ==
    /\ obs.kind = "tick"
    /\ Len(obs.hits) = 1
    /\ obs.hits[1].kind = "rock"
    /\ obs.hits[1].overlaps.ships # {}
    /\ Len(obs.deaths) = 0
    /\ \A id \in obs.hits[1].overlaps.ships : Deref(players, id).hp = 1
    /\ ~HasId(projectiles, obs.hits[1].projectile)


\* C27: a projectile in the world is younger than 3000 ms and each tick
\* adds dt to its age, so it is gone no later than the tick in which its age
\* reaches 3000 ms; after a tick every projectile left is inside
\* [0, width] x [0, height]; a projectile that is expired or outside after
\* its move is removed in that tick and damages nothing.
InWorld(p) == 0 <= p.x /\ p.x <= width /\ 0 <= p.y /\ p.y <= height

C27_Young ==
    /\ \A i \in 1..Len(projectiles) :
          /\ projectiles[i].lifetime < maxLifetime
          /\ projectiles[i].lifetime <= ticks * deltaTime
          /\ obs.kind = "tick" => InWorld(projectiles[i].position)
    /\ obs.kind = "tick" =>
          /\ \A h \in 1..Len(obs.hits) :
                obs.hits[h].age < maxLifetime /\ InWorld(obs.hits[h].at)
          /\ \A r \in 1..Len(obs.retired) :
                /\ obs.retired[r].age >= maxLifetime \/ ~InWorld(obs.retired[r].at)
                /\ ~HasId(projectiles, obs.retired[r].projectile)
                /\ \A h \in 1..Len(obs.hits) :
                      obs.hits[h].projectile # obs.retired[r].projectile

C27_Ages ==
    ticks' = ticks + 1 =>
        /\ \A i \in 1..Len(projectiles') :
              /\ HasId(projectiles, projectiles'[i].id)
              /\ projectiles'[i].lifetime =
                    Deref(projectiles, projectiles'[i].id).lifetime + deltaTime
        /\ \A i \in 1..Len(projectiles) :
              \/ HasId(projectiles', projectiles[i].id)
              \/ \E h \in 1..Len(obs'.hits) : obs'.hits[h].projectile = projectiles[i].id
              \/ \E r \in 1..Len(obs'.retired) : obs'.retired[r].projectile = projectiles[i].id

C27_Removal == [](C27_Young) /\ [][C27_Ages]_vars

\* A projectile reached the age of 3000 ms on top of a rock and was removed;
\* nothing was hit and the rock has its hp.
C27_Witness ==
    /\ obs.kind = "tick"
    /\ Len(obs.hits) = 0
    /\ \E r \in 1..Len(obs.retired) :
          /\ obs.retired[r].age = maxLifetime
          /\ InWorld(obs.retired[r].at)
          /\ obs.retired[r].overlaps.rocks # {}
          /\ \A id \in obs.retired[r].overlaps.rocks :
                Deref(rocks, id).hp = Deref(rocks, id).maxHp


\* C28: in a tick every ship is moved exactly once, in order; a projectile
\* hits a ship where the ship stands after all moves (or where it respawned
\* earlier in the tick); a pickup is made where the ship stands at the end
\* of the tick and with the hp its hits and death of this tick left it; and
\* every game:update and ships:batch_update of the tick shows the ships as
\* they are at the end of the tick.
HitsOn(id) == SelectSeq(obs.hits, LAMBDA h : h.kind = "ship" /\ h.target = id)

DeathsOf(id) == SelectSeq(obs.deaths, LAMBDA death : death.id = id)

PickupsBy(id) == SelectSeq(obs.pickups, LAMBDA p : p.player = id)

C28_MovedOnce ==
    /\ Len(obs.moves) = Len(players)
    /\ \A i \in 1..Len(players) : obs.moves[i].id = players[i].id

C28_HitsAfterMoves ==
    \A h \in 1..Len(obs.hits) :
        obs.hits[h].kind = "ship" =>
            \/ \E i \in 1..Len(obs.moves) :
                  /\ obs.moves[i].id = obs.hits[h].target
                  /\ obs.moves[i].endPos = obs.hits[h].targetAt
            \/ \E k \in 1..Len(obs.deaths) :
                  /\ obs.deaths[k].id = obs.hits[h].target
                  /\ obs.deaths[k].position = obs.hits[h].targetAt

C28_PickupsLast ==
    \A i \in 1..Len(players) :
        LET id == players[i].id
            got == PickupsBy(id)
            hit == HitsOn(id)
        IN  /\ \A k \in 1..Len(got) : got[k].playerAt = players[i].position
            /\ Len(got) > 0 /\ Len(hit) > 0 =>
                  got[1].before.hp = IF Len(DeathsOf(id)) > 0 /\ hit[Len(hit)].isDead THEN 1
                                     ELSE hit[Len(hit)].hpAfter
            /\ Len(got) > 0 => players[i].hp = got[Len(got)].after.hp

C28_DeltasLast ==
    \A n \in 1..Len(outbox) :
        /\ outbox[n].event = "game:update" =>
              /\ \E id \in PlayerIds :
                    /\ outbox[n].to = {id}
                    /\ outbox[n].data.player = PlayerSerialize(Deref(players, id))
              /\ \A e \in 1..Len(outbox[n].data.entities) :
                    LET entity == outbox[n].data.entities[e]
                    IN  "type" \in DOMAIN entity /\ entity.type = "ship" =>
                            entity = PlayerSerialize(Deref(players, entity.id))
        /\ outbox[n].event = "ships:batch_update" =>
              outbox[n].data = [i \in 1..Len(players) |-> PlayerSerialize(players[i])]

C28_TickOrder ==
    obs.kind = "tick" =>
        C28_MovedOnce /\ C28_HitsAfterMoves /\ C28_PickupsLast /\ C28_DeltasLast

\* A ship was sunk, respawned on a wood and collected it in the same tick,
\* and a game:update of that tick shows it with the hp it has now.
C28_Witness ==
    /\ obs.kind = "tick"
    /\ \E k \in 1..Len(obs.deaths) :
          LET id == obs.deaths[k].id
          IN  /\ Len(PickupsBy(id)) > 0
              /\ PickupsBy(id)[1].playerAt = obs.deaths[k].position
              /\ PickupsBy(id)[1].before.hp = 1
              /\ Deref(players, id).hp = 2
              /\ \E n \in 1..Len(outbox) :
                    /\ outbox[n].event = "game:update"
                    /\ \E e \in 1..Len(outbox[n].data.entities) :
                          /\ outbox[n].data.entities[e].id = id
                          /\ "hp" \in DOMAIN outbox[n].data.entities[e]
                          /\ outbox[n].data.entities[e].hp = 2


\* C29: a chest a ship collides with in the pickup step is removed from the
\* world whatever the ship's hp; with hp < 6 the ship's hp, size and cannons
\* are unchanged, with hp >= 6 hp and size are unchanged and cannons become
\* max(cannons, 2 + 2 * floor(hp / 5)).
C29_Chest ==
    obs.kind = "tick" =>
        /\ \A k \in 1..Len(obs.pickups) :
              LET p == obs.pickups[k]
              IN  p.resourceType = "chest" =>
                      /\ ~HasId(resources, p.resource)
                      /\ p.after.hp = p.before.hp
                      /\ p.after.size = p.before.size
                      /\ p.before.hp < 6 => p.after.cannons = p.before.cannons
                      /\ p.before.hp >= 6 =>
                            p.after.cannons =
                                Max(p.before.cannons, 2 + 2 * (p.before.hp \div 5))
        /\ \A i \in 1..Len(players), k \in 1..Len(resources) :
              resources[k].resourceType = "chest" => ~collidesWith(players[i], resources[k])

\* In one tick a ship with hp 5 ran over a chest and kept its cannons; the
\* chest is gone.
C29_Witness ==
    /\ obs.kind = "tick"
    /\ \E k \in 1..Len(obs.pickups) :
          /\ obs.pickups[k].resourceType = "chest"
          /\ obs.pickups[k].before.hp = 5
          /\ obs.pickups[k].after = obs.pickups[k].before
          /\ ~HasId(resources, obs.pickups[k].resource)


\* C30: at the end of every tick every ship stands inside the world inset
\* by its own size: size <= x <= width - size and size <= y <= height - size.
C30_InsideInset ==
    obs.kind = "tick" =>
        \A i \in 1..Len(players) :
            /\ players[i].size <= players[i].position.x
            /\ players[i].position.x <= width - players[i].size
            /\ players[i].size <= players[i].position.y
            /\ players[i].position.y <= height - players[i].size

---------------------------------------------------------------------------
(* Respawning the rocks *)

\* After admin:action:respawn_rocks the world holds exactly initialRockCount
\* rocks, none with an id from before, and the sender has been sent one
\* admin:config:update whose currentRockCount is initialRockCount.
C31_Replaced ==
    obs.kind = "adminRespawn" =>
        /\ Len(rocks) = config.initialRockCount
        /\ \A j \in 1..Len(obs.before.rocks) : ~HasId(rocks, obs.before.rocks[j].id)
        /\ Len(outbox) = 1
        /\ outbox[1].event = "admin:config:update"
        /\ outbox[1].to = {obs.who}
        /\ outbox[1].data.currentRockCount = config.initialRockCount
        /\ outbox[1].data.initialRockCount = config.initialRockCount

\* In every sendUpdates a player is sent a game:update with one removal
\* marker for every rock of its last-known set that is no longer in the
\* world.
C31_Markers ==
    obs.kind = "tick" =>
        \A k \in 1..Len(obs.deltas) :
            LET entry == obs.deltas[k]
            IN  \A j \in 1..Len(entry.previous.rocks) :
                    ~HasId(rocks, entry.previous.rocks[j]) =>
                        /\ RemovalCount(entry.entities, entry.previous.rocks[j]) = 1
                        /\ \E m \in 1..Len(outbox) :
                              /\ outbox[m].event = "game:update"
                              /\ outbox[m].to = {entry.id}
                              /\ outbox[m].data.entities = entry.entities

\* After admin:action:respawn_rocks the rock count is within maxRockCount.
C31_Bounded == obs.kind = "adminRespawn" => Len(rocks) <= config.maxRockCount

\* C31: admin:action:respawn_rocks replaces the rocks by exactly
\* initialRockCount new ones, is acknowledged by one admin:config:update
\* whose currentRockCount is initialRockCount, the next sendUpdates sends
\* each player a removal marker for every rock of its last-known set, and
\* the rock count stays within maxRockCount.
C31_Respawn == C31_Replaced /\ C31_Markers /\ C31_Bounded

\* A tick after a respawn sent a ship the removal marker of every rock it
\* knew, all of which the respawn had replaced.
C31_MarkersSeen ==
    /\ obs.kind = "tick"
    /\ \E k \in 1..Len(obs.deltas) :
          /\ Len(obs.deltas[k].previous.rocks) > 0
          /\ \A j \in 1..Len(obs.deltas[k].previous.rocks) :
                /\ RemovalCount(obs.deltas[k].entities, obs.deltas[k].previous.rocks[j]) = 1
                /\ \A i \in 1..Len(rocks) : rocks[i].id > obs.deltas[k].previous.rocks[j]
    /\ Len(rocks) = config.initialRockCount

---------------------------------------------------------------------------
(* The cannons and the hit points of a ship *)

C32_HitSeen ==
    /\ obs.kind = "tick"
    /\ \E k \in 1..Len(obs.hits), i \in 1..Len(players) :
          /\ obs.hits[k].kind = "ship"
          /\ players[i].id = obs.hits[k].target
          /\ players[i].hp >= 10
          /\ players[i].cannons = 6

\* C33: after every handler and every tick each ship has 1 <= hp <= maxHp.
C33_HpRange ==
    \A i \in 1..Len(players) :
        /\ 1 <= players[i].hp
        /\ players[i].hp <= players[i].maxHp

\* A tick in which a ship that had picked up wood was hit and is left with
\* fewer hp than its maxHp.
C33_Witness ==
    /\ obs.kind = "tick"
    /\ \E k \in 1..Len(obs.hits), i \in 1..Len(players) :
          /\ obs.hits[k].kind = "ship"
          /\ players[i].id = obs.hits[k].target
          /\ players[i].maxHp > 1
          /\ players[i].hp < players[i].maxHp

\* A tick in which a ship was sunk and is back with 1 hp.
C33_DeathSeen ==
    /\ obs.kind = "tick"
    /\ \E k \in 1..Len(obs.deaths), i \in 1..Len(players) :
          /\ players[i].id = obs.deaths[k].id
          /\ players[i].hp = 1

---------------------------------------------------------------------------
(* Wood picked up by more than one ship *)

\* The wood pickups of the last tick.
WoodPickups == SelectSeq(obs.pickups, LAMBDA p : p.resourceType = "wood")

\* The hp the ships gained in the pickups of a log.
RECURSIVE HpGained(_)
HpGained(log) ==
    IF log = <<>> THEN 0
    ELSE (Head(log).after.hp - Head(log).before.hp) + HpGained(Tail(log))

\* The sum of the values of a set of resources.
RECURSIVE ValueOf(_)
ValueOf(removed) ==
    IF removed = {} THEN 0
    ELSE LET r == CHOOSE x \in removed : TRUE
         IN  r.value + ValueOf(removed \ {r})

\* C34: in every tick the hp all ships gained from wood pickups equals the
\* sum of the values of the wood resources removed in that tick: each
\* resource consumed has its effect on exactly one ship.
C34_OncePerResource ==
    obs.kind = "tick" =>
        /\ HpGained(WoodPickups) =
              ValueOf({[id |-> WoodPickups[k].resource, value |-> WoodPickups[k].value] :
                          k \in 1..Len(WoodPickups)})
        /\ \A k, l \in 1..Len(WoodPickups) :
              WoodPickups[k].resource = WoodPickups[l].resource => k = l

---------------------------------------------------------------------------
(* Ships clear of rocks and of each other *)

\* No ship overlaps a rock or another ship: the distance of the centres is
\* at least the sum of the sizes.
NoOverlap ==
    /\ \A i \in 1..Len(players), k \in 1..Len(rocks) :
          ~DistLess(distanceSq(players[i].position, rocks[k].position),
                    players[i].size + rocks[k].size)
    /\ \A i, j \in 1..Len(players) :
          i # j => ~DistLess(distanceSq(players[i].position, players[j].position),
                            players[i].size + players[j].size)

\* C35: if no ship overlaps a rock or another ship before an event (a tick,
\* a join, a spawn timer firing, admin:action:respawn_rocks), none does
\* after it.
C35_Preserved == [][NoOverlap => NoOverlap']_vars

---------------------------------------------------------------------------
(* Projectiles in the game:update *)

\* The projectile list a game:update of this tick carries for a delta entry.
VisibleShots(entry) ==
    [k \in 1..Len(entry.current.projectiles) |->
        ProjectileSerialize(Deref(projectiles, entry.current.projectiles[k]))]

\* C36: in every tick in which the projectiles visible to a connected
\* player are not none, or are not those of the tick before (which, as long
\* as this has held, are those of its previous game:update), the player is
\* sent a game:update with the current visible projectile list.
C36_ShotsSent ==
    obs.kind = "tick" =>
        \A k \in 1..Len(obs.deltas) :
            LET entry == obs.deltas[k]
            IN  (\/ Len(entry.current.projectiles) > 0
                 \/ Range(entry.current.projectiles) # Range(entry.previous.projectiles)) =>
                    \E m \in 1..Len(outbox) :
                        /\ outbox[m].event = "game:update"
                        /\ outbox[m].to = {entry.id}
                        /\ outbox[m].data.projectiles = VisibleShots(entry)

---------------------------------------------------------------------------
(* No chests *)

---------------------------------------------------------------------------
(* The players of GameServer and of World *)

\* GameServer.players and World.players have the same keys, one record for
\* each, and the keys are open connections.
C38_SameKeys ==
    /\ Range(gsPlayers) = PlayerIds
    /\ Len(gsPlayers) = Cardinality(PlayerIds)
    /\ Len(players) = Cardinality(PlayerIds)
    /\ PlayerIds \subseteq sockets

\* A player:join adds the connection to the keys, a disconnect takes it
\* away and nothing else changes them; a player:join of a connection that
\* has a ship replaces the ship by a new one with hp 1, 2 cannons and empty
\* lastKnownEntities and leaves the number of players as it was.
C38_Steps ==
    LET who == obs'.who
        after == {players'[i].id : i \in 1..Len(players')}
    IN  /\ obs'.kind = "join" =>
              /\ after = PlayerIds \cup {who}
              /\ who \in PlayerIds => Len(players') = Len(players)
              /\ \A i \in 1..Len(players') :
                    players'[i].id = who =>
                        /\ players'[i].hp = 1
                        /\ players'[i].maxHp = 1
                        /\ players'[i].cannons = 2
                        /\ players'[i].size = BASE_SIZE
                        /\ players'[i].lastKnownEntities = NoEntities
        /\ obs'.kind = "disconnect" => after = PlayerIds \ {who}
        /\ obs'.kind \notin {"join", "disconnect"} => after = PlayerIds

\* C38: GameServer.players and World.players have the same key set, which
\* is the set of connections that have joined and not disconnected; a
\* second player:join of a connection replaces its record by a new player
\* with hp 1 and 2 cannons, does not raise the player count and leaves its
\* lastKnownEntities empty.
C38_Players == [](C38_SameKeys) /\ [][C38_Steps]_vars

\* A connection whose ship had grown and knew of entities has sent
\* player:join again: one ship with hp 1 and 2 cannons, as before one ship.
C38_Witness ==
    /\ obs.kind = "join"
    /\ obs.before.ship # <<>>
    /\ obs.before.ship[1].hp > 1
    /\ obs.before.ship[1].lastKnownEntities # NoEntities
    /\ \E i \in 1..Len(players) :
          /\ players[i].id = obs.who
          /\ players[i].hp = 1
          /\ players[i].cannons = 2
          /\ players[i].lastKnownEntities = NoEntities
    /\ Cardinality({i \in 1..Len(players) : players[i].id = obs.who}) = 1

====
